---- MODULE Spec2Model ----
(***************************************************************************)
(* Verification model of the voxel world engine: World streaming and block *)
(* cache (World.ts), Chunk (Chunk.ts), LRUCache (LRUCache.ts) and the      *)
(* TerrainGenerator rule cascade, the noise setup (SimplexNoise), the      *)
(* Inventory with the CraftingSystem, and the MiningSystem.                *)
(*                                                                         *)
(* The variables mining and inventory hold the fields of MiningSystem and  *)
(* of Inventory; the specifications that do not concern them leave them at *)
(* NoMining and NoInventory.  Times of MiningSystem are in milliseconds.   *)
(*                                                                         *)
(* Numbers that are floating point in the source are fixed point here:     *)
(* noise signals are integers in hundredths (-100..100 stands for -1..1),  *)
(* placement hashes are integers in thousandths (0..999 stands for [0,1)), *)
(* and world coordinates handed to World are integers in half blocks, so   *)
(* that Math.floor has something to round.                                 *)
(*                                                                         *)
(* A chunk's 16*256*16 byte grid is projected on the voxels listed in      *)
(* Probes: the grid is a function from the flat index of each probed voxel *)
(* of that chunk to its byte; writes to other voxels are not recorded and  *)
(* reads of them yield 0, the value a fresh Uint8Array holds.              *)
(***************************************************************************)
EXTENDS Integers, Sequences, FiniteSets, TLC

VARIABLES terrain, chunks, blockCache, scene, chunksLoaded, chunksRendered,
          last, streak, columnCache, recency, mining, inventory

vars == <<terrain, chunks, blockCache, scene, chunksLoaded, chunksRendered,
          last, streak, columnCache, recency, mining, inventory>>

-----------------------------------------------------------------------------
(* Program constants *)

CHUNK_SIZE == 16
CHUNK_HEIGHT == 256
\* a faulty variant of the cap: one operation per call
maxGeneratePerFrameOne == 2 - 1

maxGeneratePerFrame == 2
BlockCacheMaxSize == 15000
waterLevel == 64
worldHeight == 256

(* BlockType enum *)
AIR == 0
GRASS == 1
DIRT == 2
STONE == 3
SAND == 4
WATER == 5
WOOD == 6
LEAVES == 7
SNOW == 8
BEDROCK == 9
GRAVEL == 10
CLAY == 11
ICE == 12
DEEPSLATE == 14
COBBLESTONE == 15
MOSS_STONE == 16
RED_SAND == 17
TERRACOTTA == 18
GRANITE == 19
DIORITE == 20
ANDESITE == 21
COAL_ORE == 22
IRON_ORE == 23
GOLD_ORE == 24
DIAMOND_ORE == 25
LAVA == 26
SNOW_BLOCK == 27
PODZOL == 28
COARSE_DIRT == 29
TALL_GRASS == 30
FERN == 31
DEAD_BUSH == 32
FLOWER_RED == 33
FLOWER_YELLOW == 34
FLOWER_BLUE == 35
FLOWER_WHITE == 36
MUSHROOM_RED == 37
MUSHROOM_BROWN == 38

VEGETATION_SET ==
    {TALL_GRASS, FERN, DEAD_BUSH, FLOWER_RED, FLOWER_YELLOW, FLOWER_BLUE,
     FLOWER_WHITE, MUSHROOM_RED, MUSHROOM_BROWN}

isVegetationBlock(blockType) == blockType \in VEGETATION_SET

isBlockTransparent(type) ==
    type \in ({AIR, WATER, LEAVES, ICE, LAVA} \cup VEGETATION_SET)

-----------------------------------------------------------------------------
(* Model bounds *)

\* config.renderDistance of the modelled World (the game passes 6)
RenderDistance == 1

-----------------------------------------------------------------------------
(* Strings: a string is a sequence of one-character strings, so that       *)
(* template literals and startsWith are computed, not assumed.             *)

Digit(d) ==
    CASE d = 0 -> "0" [] d = 1 -> "1" [] d = 2 -> "2" [] d = 3 -> "3"
      [] d = 4 -> "4" [] d = 5 -> "5" [] d = 6 -> "6" [] d = 7 -> "7"
      [] d = 8 -> "8" [] d = 9 -> "9"

RECURSIVE NatToString(_)
NatToString(n) ==
    IF n < 10 THEN <<Digit(n)>>
    ELSE NatToString(n \div 10) \o <<Digit(n % 10)>>

\* `${n}` for an integer n
NumberToString(n) ==
    IF n < 0 THEN <<"-">> \o NatToString(-n) ELSE NatToString(n)

startsWith(s, prefix) ==
    /\ Len(s) >= Len(prefix)
    /\ SubSeq(s, 1, Len(prefix)) = prefix

createChunkKey(x, z) == NumberToString(x) \o <<",">> \o NumberToString(z)

\* `${chunkKey}_${bx}_${by}_${bz}`
blockCacheKey(chunkKey, bx, by, bz) ==
    chunkKey \o <<"_">> \o NumberToString(bx) \o <<"_">>
             \o NumberToString(by) \o <<"_">> \o NumberToString(bz)

\* Math.floor of a coordinate given in half blocks
Floor(h) == h \div 2

-----------------------------------------------------------------------------
(* LRUCache: the Map is a sequence of entries in insertion order *)

LRUIndex(cache, key) ==
    IF \E i \in 1..Len(cache) : cache[i].key = key
    THEN CHOOSE i \in 1..Len(cache) : cache[i].key = key
    ELSE 0

LRUHas(cache, key) == \E i \in 1..Len(cache) : cache[i].key = key

LRURemoveAt(cache, i) ==
    SubSeq(cache, 1, i - 1) \o SubSeq(cache, i + 1, Len(cache))

\* a faulty variant of delete: the entry stays
LRUDeleteNothing(cache, key) == cache

LRUDelete(cache, key) ==
    IF LRUHas(cache, key) THEN LRURemoveAt(cache, LRUIndex(cache, key))
    ELSE cache

\* a faulty variant of get: a hit leaves the entry where it is
LRUGetInPlace(cache, key) ==
    IF LRUHas(cache, key)
    THEN [hit |-> TRUE, value |-> cache[LRUIndex(cache, key)].value,
          cache |-> cache]
    ELSE [hit |-> FALSE, value |-> AIR, cache |-> cache]

\* get: [hit, value, cache]; a hit moves the entry to the end
LRUGet(cache, key) ==
    IF LRUHas(cache, key)
    THEN LET i == LRUIndex(cache, key)
             e == cache[i]
         IN [hit |-> TRUE, value |-> e.value,
             cache |-> Append(LRURemoveAt(cache, i), e)]
    ELSE [hit |-> FALSE, value |-> AIR, cache |-> cache]

LRUSet(cache, maxSize, key, value) ==
    LET c1 == IF LRUHas(cache, key) THEN LRUDelete(cache, key)
              ELSE IF Len(cache) >= maxSize /\ Len(cache) > 0 THEN Tail(cache)
              ELSE cache
    IN Append(c1, [key |-> key, value |-> value])

LRUDeleteByPrefix(cache, prefix) ==
    SelectSeq(cache, LAMBDA e : ~startsWith(e.key, prefix))

LRUKeys(cache) == {cache[i].key : i \in 1..Len(cache)}

LRUValue(cache, key) == cache[LRUIndex(cache, key)].value

-----------------------------------------------------------------------------
(* TerrainGenerator.  A terrain is the outcome of the noise generators of  *)
(* one seed: the 2D signals of each column and the 3D samples, all in      *)
(* hundredths.  Heights are kept in 1/10000 block until they are floored,  *)
(* the altitude-adjusted temperature in 1/2000000.                         *)

HeightScale == 100 * 100
TempScale == 2 * 1000 * 1000

Max(a, b) == IF a >= b THEN a ELSE b
Min(a, b) == IF a <= b THEN a ELSE b
Abs(a) == IF a < 0 THEN -a ELSE a

\* a faulty variant: no high altitude biomes
altitudeBiomeNone(temp, height) == "none"

\* the high altitude biomes, "none" below them
altitudeBiome(temp, height) ==
    IF height > 140 * HeightScale THEN "mountain_peaks"
    ELSE IF height > 110 * HeightScale
         THEN (IF temp < -400000 THEN "snowy_slopes" ELSE "stony_peaks")
    ELSE "none"

\* the temperature-based biomes
climateBiome(temp, humidity) ==
    IF temp < -1000000
    THEN (IF humidity > 20 THEN "snowy_taiga" ELSE "snowy_plains")
    ELSE IF temp < -400000
    THEN (IF humidity > 30 THEN "taiga" ELSE "cold_plains")
    ELSE IF temp < 600000
    THEN (IF humidity > 50 THEN "jungle"
          ELSE IF humidity > 20 THEN "forest"
          ELSE IF humidity > -20 THEN "plains"
          ELSE "savanna")
    ELSE IF temp < 1200000
    THEN (IF humidity > 30 THEN "jungle"
          ELSE IF humidity > 0 THEN "savanna"
          ELSE "desert")
    ELSE IF humidity > 40 THEN "jungle"
    ELSE IF humidity > -30 THEN "badlands"
    ELSE "desert"

determineBiome(temp, humidity, height, isOcean, isBeach) ==
    LET name ==
        IF isOcean THEN (IF temp < -1000000 THEN "frozen_ocean" ELSE "ocean")
        ELSE IF isBeach THEN (IF temp < -600000 THEN "snowy_beach" ELSE "beach")
        ELSE IF altitudeBiome(temp, height) # "none"
             THEN altitudeBiome(temp, height)
        ELSE climateBiome(temp, humidity)
    IN [temperature |-> temp, humidity |-> humidity, name |-> name]

\* a faulty variant: the height clamped from above only
clampHeightAbove(terrainHeight) ==
    Min((worldHeight - 10) * HeightScale, terrainHeight)

\* Math.max(1, Math.min(worldHeight - 10, terrainHeight))
clampHeight(terrainHeight) ==
    Max(1 * HeightScale, Min((worldHeight - 10) * HeightScale, terrainHeight))

\* sig: the column's signals [continentalness, erosion, peaksValleys,
\* weirdness, detailNoise, mountainDetail, temperature, humidity]
calculateColumnInfo(sig) ==
    LET c == sig.continentalness
        e == sig.erosion
        band == IF c < -40 THEN 1 ELSE IF c < -20 THEN 2 ELSE IF c < 0 THEN 3
                ELSE IF c < 30 THEN 4 ELSE IF c < 60 THEN 5
                ELSE IF c < 80 THEN 6 ELSE 7
        isOcean == band \in {1, 2}
        isBeach == band = 3
        isMountain == IF band = 6 THEN e < 0 ELSE band = 7
        \* heightMultiplier in hundredths
        heightMultiplier ==
            CASE band = 1 -> 800
              [] band = 2 -> 1200
              [] band = 3 -> 600
              [] band = 4 -> 1500 + (100 - e) * 10
              [] band = 5 -> 2500 + (100 - e) * 20
              [] band = 6 -> 4500 + (100 - e) * 30
              [] band = 7 -> 8000 + sig.peaksValleys * sig.peaksValleys
        baseHeight ==
            CASE band = 1 -> 25
              [] band = 2 -> 45
              [] band = 3 -> waterLevel - 1
              [] band = 4 -> 68
              [] band = 5 -> 72
              [] band = 6 -> 78
              [] band = 7 -> 85
        \* everything the source computes after the height is clamped
        finish(terrainHeight) ==
            [terrainHeight |-> terrainHeight \div HeightScale,
             biome |-> determineBiome(
                 sig.temperature * (TempScale \div 100)
                     - Max(0, terrainHeight - 100 * HeightScale),
                 sig.humidity, terrainHeight, isOcean, isBeach),
             continentalness |-> c,
             erosion |-> e,
             isOcean |-> isOcean,
             isBeach |-> isBeach,
             isMountain |-> isMountain,
             isRiver |-> /\ ~isOcean
                         /\ ~isBeach
                         /\ Abs(sig.weirdness) < 8
                         /\ terrainHeight < (waterLevel + 15) * HeightScale]
    IN finish(clampHeight(baseHeight * HeightScale
                              + sig.detailNoise * heightMultiplier
                              + (IF isMountain THEN sig.mountainDetail * 15 * 100
                                 ELSE 0)))

\* a faulty variant: caves carved up to the surface
isCaveAnywhere(n, y, surfaceHeight) ==
    (2 * n.cave1 + n.cave2) * surfaceHeight
        < -120 * surfaceHeight - 30 * (surfaceHeight - y)

\* n: the 3D noise samples of the voxel, in hundredths
isCave(n, y, surfaceHeight) ==
    IF surfaceHeight - y < 5 THEN FALSE
    ELSE (2 * n.cave1 + n.cave2) * surfaceHeight
            < -120 * surfaceHeight - 30 * (surfaceHeight - y)

getSurfaceBlock(n, y, terrainHeight, biome, isOcean, isBeach, isMountain) ==
    LET depthBelowSurface == terrainHeight - y
        isTopLayer == y = terrainHeight
        cold == biome.temperature < -600000
    IN IF isBeach \/ (y <= waterLevel + 3 /\ y >= waterLevel - 5)
       THEN (IF cold THEN SNOW ELSE SAND)
       ELSE IF isOcean
       THEN (IF depthBelowSurface <= 2
             THEN (IF n.scale10 > 30 THEN GRAVEL
                   ELSE IF cold THEN GRAVEL ELSE SAND)
             ELSE STONE)
       ELSE IF isMountain /\ terrainHeight > 130
       THEN (IF isTopLayer THEN SNOW
             ELSE IF depthBelowSurface <= 2 THEN SNOW_BLOCK ELSE STONE)
       ELSE IF terrainHeight > 110
       THEN (IF n.scale8 > -20 THEN STONE ELSE GRAVEL)
       ELSE IF biome.name \in {"desert", "badlands"}
       THEN (IF biome.name = "badlands" /\ depthBelowSurface > 1
             THEN TERRACOTTA ELSE SAND)
       ELSE IF biome.name \in {"snowy_plains", "snowy_taiga", "snowy_slopes",
                               "snowy_beach"}
       THEN (IF isTopLayer THEN SNOW
             ELSE IF depthBelowSurface <= 3 THEN DIRT ELSE STONE)
       ELSE IF biome.name = "frozen_ocean"
       THEN (IF y >= waterLevel - 1 THEN ICE ELSE WATER)
       ELSE IF biome.name = "taiga"
       THEN (IF isTopLayer THEN PODZOL
             ELSE IF depthBelowSurface <= 3 THEN DIRT ELSE STONE)
       ELSE IF biome.name = "jungle"
       THEN (IF isTopLayer THEN (IF n.scale6 > 30 THEN MOSS_STONE ELSE GRASS)
             ELSE IF depthBelowSurface <= 4 THEN DIRT ELSE STONE)
       ELSE IF biome.name = "savanna"
       THEN (IF isTopLayer THEN GRASS
             ELSE IF depthBelowSurface <= 2 THEN COARSE_DIRT
             ELSE IF depthBelowSurface <= 4 THEN DIRT ELSE STONE)
       ELSE (IF isTopLayer THEN GRASS
             ELSE IF depthBelowSurface <= 3 THEN DIRT ELSE STONE)

checkForOre(n, y) ==
    IF n.scale8 > 72 /\ y > 5 /\ y < 128 THEN COAL_ORE
    ELSE IF n.iron > 75 /\ y > 5 /\ y < 64 THEN IRON_ORE
    ELSE IF n.gold > 82 /\ y > 5 /\ y < 32 THEN GOLD_ORE
    ELSE IF n.diamond > 88 /\ y > 2 /\ y < 16 THEN DIAMOND_ORE
    ELSE AIR

getUndergroundBlock(n, y) ==
    IF n.variant > 60
    THEN (IF n.sub > 30 THEN GRANITE
          ELSE IF n.sub < -30 THEN DIORITE ELSE ANDESITE)
    ELSE IF checkForOre(n, y) # AIR THEN checkForOre(n, y)
    ELSE IF n.gravel > 70 THEN GRAVEL
    ELSE STONE

\* a faulty variant: water up to the top of the world
aboveTerrainBlockFlooded(y, column) ==
    IF column.isRiver /\ y <= waterLevel THEN WATER
    ELSE IF y <= worldHeight THEN WATER
    ELSE AIR

\* the block of a voxel above the terrain height
aboveTerrainBlock(y, column) ==
    IF column.isRiver /\ y <= waterLevel THEN WATER
    ELSE IF y <= waterLevel THEN WATER
    ELSE AIR

\* a faulty variant: the deepslate rule tried before the surface rule
determineBlockDeepslateFirst(n, y, column) ==
    LET terrainHeight == column.terrainHeight
    IN IF y <= 0 THEN BEDROCK
       ELSE IF y <= 3 /\ Abs(n.bedrock) < 30 + y * 10 THEN BEDROCK
       ELSE IF y <= terrainHeight /\ y > 5 /\ isCave(n, y, terrainHeight)
       THEN (IF y <= waterLevel - 10 /\ y < 20 THEN LAVA ELSE AIR)
       ELSE IF y > terrainHeight THEN aboveTerrainBlock(y, column)
       ELSE IF y < 10 THEN DEEPSLATE
       ELSE IF y >= terrainHeight - 4
       THEN getSurfaceBlock(n, y, terrainHeight, column.biome, column.isOcean,
                            column.isBeach, column.isMountain)
       ELSE getUndergroundBlock(n, y)

determineBlock(n, y, column) ==
    LET terrainHeight == column.terrainHeight
    IN IF y <= 0 THEN BEDROCK
       ELSE IF y <= 3 /\ Abs(n.bedrock) < 30 + y * 10 THEN BEDROCK
       ELSE IF y <= terrainHeight /\ y > 5 /\ isCave(n, y, terrainHeight)
       THEN (IF y <= waterLevel - 10 /\ y < 20 THEN LAVA ELSE AIR)
       ELSE IF y > terrainHeight THEN aboveTerrainBlock(y, column)
       ELSE IF y >= terrainHeight - 4
       THEN getSurfaceBlock(n, y, terrainHeight, column.biome, column.isOcean,
                            column.isBeach, column.isMountain)
       ELSE IF y < 10 THEN DEEPSLATE
       ELSE getUndergroundBlock(n, y)

-----------------------------------------------------------------------------
(* The probed voxels (world coordinates) and the terrains of the model *)

\* column (-13,6) of chunk (-1,0) carries a tree, whose trunk passes y = 74
\* and whose trunk or canopy reaches y = 75; (1,160) lies in chunk (0,10),
\* whose key has the key of chunk (0,1) as a string prefix; the next three
\* are the local voxels (0,16,0), (0,0,1) and (15,255,15) of chunk (40,40);
\* the last six are the surface voxel (y = 70) and the voxel above it of two
\* columns of chunk (50,50) and of one column of chunk (51,50).  The chunks
\* (40,40), (50,50) and (51,50) are out of reach of the observers
Probes ==
    {<<-13, 74, 6>>, <<-13, 75, 6>>, <<1, 71, 160>>,
     <<640, 16, 640>>, <<640, 0, 641>>, <<655, 255, 655>>,
     <<813, 70, 813>>, <<813, 71, 813>>, <<800, 70, 812>>, <<800, 71, 812>>,
     <<816, 70, 801>>, <<816, 71, 801>>, <<799, 70, 812>>, <<799, 71, 812>>}

ProbeColumns == {<<p[1], p[3]>> : p \in Probes}

\* Math.abs(Math.sin(x * a + z * b) * c) % 1 in thousandths, tabulated for
\* the probed columns
treeHash(worldX, worldZ) ==
    CASE <<worldX, worldZ>> = <<-13, 6>> -> 996
      [] <<worldX, worldZ>> = <<1, 160>> -> 998
      [] <<worldX, worldZ>> = <<813, 813>> -> 999
      [] <<worldX, worldZ>> = <<800, 812>> -> 203
      [] <<worldX, worldZ>> = <<816, 801>> -> 503
      [] <<worldX, worldZ>> = <<799, 812>> -> 891
      [] <<worldX, worldZ>> = <<640, 640>> -> 999
      [] <<worldX, worldZ>> = <<640, 641>> -> 408
      [] <<worldX, worldZ>> = <<655, 655>> -> 113

vegetationHash(worldX, worldZ) ==
    CASE <<worldX, worldZ>> = <<-13, 6>> -> 411
      [] <<worldX, worldZ>> = <<1, 160>> -> 475
      [] <<worldX, worldZ>> = <<813, 813>> -> 805
      [] <<worldX, worldZ>> = <<800, 812>> -> 872
      [] <<worldX, worldZ>> = <<816, 801>> -> 84
      [] <<worldX, worldZ>> = <<799, 812>> -> 194
      [] <<worldX, worldZ>> = <<640, 640>> -> 751
      [] <<worldX, worldZ>> = <<640, 641>> -> 218
      [] <<worldX, worldZ>> = <<655, 655>> -> 555

vegetationTypeHash(worldX, worldZ) ==
    CASE <<worldX, worldZ>> = <<-13, 6>> -> 618
      [] <<worldX, worldZ>> = <<1, 160>> -> 468
      [] <<worldX, worldZ>> = <<813, 813>> -> 637
      [] <<worldX, worldZ>> = <<800, 812>> -> 27
      [] <<worldX, worldZ>> = <<816, 801>> -> 421
      [] <<worldX, worldZ>> = <<799, 812>> -> 97
      [] <<worldX, worldZ>> = <<640, 640>> -> 970
      [] <<worldX, worldZ>> = <<640, 641>> -> 183
      [] <<worldX, worldZ>> = <<655, 655>> -> 19

QuietNoise ==
    [bedrock |-> 50, cave1 |-> 0, cave2 |-> 0, scale10 |-> 0, scale8 |-> 0,
     scale6 |-> 0, variant |-> 0, sub |-> 0, iron |-> 0, gold |-> 0,
     diamond |-> 0, gravel |-> 0]

PlainsSignals ==
    [continentalness |-> 10, erosion |-> 0, peaksValleys |-> 0,
     weirdness |-> 50, detailNoise |-> 10, mountainDetail |-> 0,
     temperature |-> 0, humidity |-> 0]

ForestSignals == [PlainsSignals EXCEPT !.humidity = 30]

DesertSignals == [PlainsSignals EXCEPT !.temperature = 40, !.humidity = -10]

\* a terrain: the signals of every probed column and the 3D samples
Terrains ==
    {[signals |-> [c \in ProbeColumns |-> PlainsSignals], noise |-> QuietNoise],
     [signals |-> [c \in ProbeColumns |->
                      IF c = <<-13, 6>> THEN ForestSignals ELSE DesertSignals],
      noise |-> QuietNoise]}

columnInfo(t, worldX, worldZ) == calculateColumnInfo(t.signals[<<worldX, worldZ>>])

getHeight(t, worldX, worldZ) == columnInfo(t, worldX, worldZ).terrainHeight

getBiome(t, worldX, worldZ) == columnInfo(t, worldX, worldZ).biome.name

\* TerrainGenerator.getBlockAt
generatorGetBlockAt(t, worldX, worldY, worldZ) ==
    determineBlock(t.noise, worldY, columnInfo(t, worldX, worldZ))

\* the decision of shouldPlaceTree for a column and its hash
treeRule(column, name, hash) ==
    IF column.isOcean \/ column.isBeach THEN FALSE
    ELSE IF name \in {"desert", "badlands"} THEN FALSE
    ELSE IF name = "snowy_plains" THEN FALSE
    ELSE IF column.terrainHeight > 120 THEN FALSE
    ELSE hash > (IF name = "savanna" THEN 995
                 ELSE IF name \in {"taiga", "snowy_taiga"} THEN 975
                 ELSE IF name = "jungle" THEN 950
                 ELSE IF name = "forest" THEN 970
                 ELSE 985)

shouldPlaceTree(t, worldX, worldZ) ==
    LET rule(column) == treeRule(column, column.biome.name,
                                 treeHash(worldX, worldZ))
    IN rule(columnInfo(t, worldX, worldZ))

\* the decision of shouldPlaceVegetation for a column and its hash
vegetationRule(column, name, hash) ==
    IF column.isOcean \/ column.isBeach THEN FALSE
    ELSE IF name \in {"desert", "badlands"} THEN FALSE
    ELSE IF name \in {"snowy_plains", "snowy_taiga", "snowy_slopes",
                      "snowy_beach"} THEN FALSE
    ELSE IF column.terrainHeight > 130 THEN FALSE
    ELSE hash > (CASE name = "plains" -> 550
                   [] name = "forest" -> 650
                   [] name = "jungle" -> 450
                   [] name = "taiga" -> 700
                   [] name = "savanna" -> 800
                   [] OTHER -> 750)

shouldPlaceVegetation(t, worldX, worldZ) ==
    LET rule(column) == vegetationRule(column, column.biome.name,
                                       vegetationHash(worldX, worldZ))
    IN rule(columnInfo(t, worldX, worldZ))

\* the choice of getVegetationType for a biome name and a hash value
vegetationTypeRule(name, value) ==
    IF name \in {"badlands", "savanna"}
    THEN (IF value > 950 THEN DEAD_BUSH ELSE TALL_GRASS)
    ELSE IF name = "jungle"
    THEN (IF value < 300 THEN FERN
          ELSE IF value < 350 THEN FLOWER_RED
          ELSE IF value < 400 THEN FLOWER_WHITE
          ELSE IF value < 420 THEN MUSHROOM_RED
          ELSE IF value < 440 THEN MUSHROOM_BROWN
          ELSE TALL_GRASS)
    ELSE IF name \in {"taiga", "snowy_taiga"}
    THEN (IF value < 250 THEN FERN
          ELSE IF value < 300 THEN MUSHROOM_BROWN
          ELSE IF value < 330 THEN MUSHROOM_RED
          ELSE TALL_GRASS)
    ELSE IF name = "forest"
    THEN (IF value < 150 THEN FERN
          ELSE IF value < 200 THEN FLOWER_BLUE
          ELSE IF value < 240 THEN FLOWER_WHITE
          ELSE IF value < 270 THEN MUSHROOM_BROWN
          ELSE TALL_GRASS)
    ELSE IF value < 80 THEN FLOWER_RED
    ELSE IF value < 140 THEN FLOWER_YELLOW
    ELSE IF value < 180 THEN FLOWER_BLUE
    ELSE IF value < 210 THEN FLOWER_WHITE
    ELSE TALL_GRASS

getVegetationType(t, worldX, worldZ) ==
    vegetationTypeRule(getBiome(t, worldX, worldZ),
                       vegetationTypeHash(worldX, worldZ))

\* getTreeHeight() without arguments: 4 + Math.floor(Math.random() * 3)
TreeHeights == 4..6

-----------------------------------------------------------------------------
(* Chunk *)

\* waterMesh: THREE.Mesh | null
NoMesh == 0

FloorDiv(a, b) == a \div b

\* the remainder operator of the source language (sign of the dividend)
Rem(a, b) == IF a >= 0 THEN a % b ELSE -((-a) % b)

blockIndex(x, y, z) == x + y * CHUNK_SIZE + z * CHUNK_SIZE * CHUNK_HEIGHT

\* a faulty variant: the bounds check without the test on x
inChunkRangeNoX(x, y, z) ==
    ~(y < 0 \/ y >= CHUNK_HEIGHT \/ z < 0 \/ z >= CHUNK_SIZE)

inChunkRange(x, y, z) ==
    ~(x < 0 \/ x >= CHUNK_SIZE \/ y < 0 \/ y >= CHUNK_HEIGHT
        \/ z < 0 \/ z >= CHUNK_SIZE)

\* the probed voxels of chunk (cx, cz), as local coordinates
ProbedLocal(cx, cz) ==
    {<<p[1] - cx * CHUNK_SIZE, p[2], p[3] - cz * CHUNK_SIZE>> :
        p \in {q \in Probes : /\ FloorDiv(q[1], CHUNK_SIZE) = cx
                              /\ FloorDiv(q[3], CHUNK_SIZE) = cz}}

\* constructor: new Uint8Array(...) is all zero
NewChunk(x, z) ==
    [x |-> x, z |-> z, meshes |-> <<>>, waterMesh |-> NoMesh,
     isGenerated |-> FALSE, isBuilt |-> FALSE,
     blocks |-> [i \in {blockIndex(q[1], q[2], q[3]) : q \in ProbedLocal(x, z)}
                    |-> 0]]

chunkGetBlock(chunk, x, y, z) ==
    IF ~inChunkRange(x, y, z) THEN AIR
    ELSE IF blockIndex(x, y, z) \in DOMAIN chunk.blocks
         THEN chunk.blocks[blockIndex(x, y, z)]
         ELSE 0

chunkSetBlock(chunk, x, y, z, type) ==
    IF ~inChunkRange(x, y, z) THEN chunk
    ELSE IF blockIndex(x, y, z) \in DOMAIN chunk.blocks
         THEN [chunk EXCEPT !.blocks[blockIndex(x, y, z)] = type % 256]
         ELSE chunk

\* Math.random() > 0.5 is drawn once per leaf corner; skip is the set of
\* corners <<dx, dz, dy>> where it came out true
LeafRadius(dy) == IF dy = 0 THEN 2 ELSE IF dy = 1 THEN 2 ELSE 1

LeafOffsets ==
    {o \in (-2..2) \X (-2..2) \X (0..2) :
        /\ Abs(o[1]) <= LeafRadius(o[3])
        /\ Abs(o[2]) <= LeafRadius(o[3])}

LeafCorners ==
    {o \in LeafOffsets : /\ Abs(o[1]) = LeafRadius(o[3])
                         /\ Abs(o[2]) = LeafRadius(o[3])}

placeTree(chunk, lx, wz, surfaceY, rnd) ==
    IF surfaceY < 35 THEN chunk
    ELSE
    LET treeHeight == rnd.treeHeight
        localZ == Rem(Rem(wz, CHUNK_SIZE) + CHUNK_SIZE, CHUNK_SIZE)
        trunk == {<<lx, surfaceY + y, localZ>> :
                     y \in {yy \in 1..treeHeight : surfaceY + yy < CHUNK_HEIGHT}}
        leafStart == surfaceY + treeHeight - 1
        leaves == {<<lx + o[1], leafStart + o[3], localZ + o[2]>> :
                     o \in {oo \in LeafOffsets :
                         /\ lx + oo[1] >= 0 /\ lx + oo[1] < CHUNK_SIZE
                         /\ localZ + oo[2] >= 0 /\ localZ + oo[2] < CHUNK_SIZE
                         /\ leafStart + oo[3] < CHUNK_HEIGHT
                         /\ ~(oo[1] = 0 /\ oo[2] = 0 /\ oo[3] < 2)
                         /\ ~(oo \in LeafCorners /\ oo \in rnd.skip)}}
        trunkIdx == {blockIndex(q[1], q[2], q[3]) :
                        q \in {t \in trunk : inChunkRange(t[1], t[2], t[3])}}
        leafIdx == {blockIndex(q[1], q[2], q[3]) :
                        q \in {t \in leaves : inChunkRange(t[1], t[2], t[3])}}
    IN [chunk EXCEPT !.blocks =
           [i \in DOMAIN chunk.blocks |->
               IF i \in leafIdx THEN LEAVES
               ELSE IF i \in trunkIdx THEN WOOD
               ELSE chunk.blocks[i]]]

\* a faulty variant: vegetation placed whatever the surface block is
placeVegetationAnywhere(t, chunk, lx, lz, wx, wz) ==
    LET place(surfaceY) ==
            IF surfaceY + 1 < CHUNK_HEIGHT
            THEN chunkSetBlock(chunk, lx, surfaceY + 1, lz,
                               getVegetationType(t, wx, wz))
            ELSE chunk
    IN place(getHeight(t, wx, wz))

placeVegetation(t, chunk, lx, lz, wx, wz) ==
    LET place(surfaceY) ==
            IF chunkGetBlock(chunk, lx, surfaceY, lz) # GRASS THEN chunk
            ELSE IF surfaceY + 1 < CHUNK_HEIGHT
                 THEN chunkSetBlock(chunk, lx, surfaceY + 1, lz,
                                    getVegetationType(t, wx, wz))
                 ELSE chunk
    IN place(getHeight(t, wx, wz))

\* the set S as a sequence in ascending rank (rank: a function on S)
RECURSIVE SortedSeq(_, _)
SortedSeq(S, rank) ==
    IF S = {} THEN <<>>
    ELSE LET m == CHOOSE a \in S : \A b \in S : rank[a] <= rank[b]
         IN <<m>> \o SortedSeq(S \ {m}, rank)

\* one pass of the inner loops of generate for column (lx, lz)
generateColumn(t, chunk, lx, lz, rnd) ==
    LET wx == chunk.x * CHUNK_SIZE + lx
        wz == chunk.z * CHUNK_SIZE + lz
        colIdx == {blockIndex(lx, q[2], lz) :
                      q \in {r \in ProbedLocal(chunk.x, chunk.z) :
                                r[1] = lx /\ r[3] = lz}}
        decorate(filled) ==
            IF shouldPlaceTree(t, wx, wz)
            THEN placeTree(filled, lx, wz, getHeight(t, wx, wz), rnd)
            ELSE IF shouldPlaceVegetation(t, wx, wz)
            THEN placeVegetation(t, filled, lx, lz, wx, wz)
            ELSE filled
    IN decorate([chunk EXCEPT !.blocks =
                   [i \in DOMAIN chunk.blocks |->
                      IF i \in colIdx
                      THEN generatorGetBlockAt(t, wx,
                               (i \div CHUNK_SIZE) % CHUNK_HEIGHT, wz) % 256
                      ELSE chunk.blocks[i]]])

RECURSIVE generateColumns(_, _, _, _)
generateColumns(t, chunk, cols, rnd) ==
    IF cols = <<>> THEN chunk
    ELSE generateColumns(t,
             generateColumn(t, chunk, Head(cols)[1], Head(cols)[2], rnd),
             Tail(cols), rnd)

\* the body of Chunk.generate behind its guard; the columns are visited
\* lx outer, lz inner
populate(t, chunk, rnd) ==
    LET colSet == {<<q[1], q[3]>> : q \in ProbedLocal(chunk.x, chunk.z)}
    IN [generateColumns(t, chunk,
            SortedSeq(colSet, [c \in colSet |-> c[1] * CHUNK_SIZE + c[2]]),
            rnd)
        EXCEPT !.isGenerated = TRUE]

\* a faulty variant of generate: no guard on the generated flag
generateUnguarded(t, chunk, rnd) == populate(t, chunk, rnd)

\* Chunk.generate
generate(t, chunk, rnd) ==
    IF chunk.isGenerated THEN chunk ELSE populate(t, chunk, rnd)

\* a faulty variant: no face is culled
shouldRenderFaceAlways(chunk, nx, ny, nz, currentBlock, isWater) == TRUE

\* a faulty variant: no face toward a position outside the grid
shouldRenderFaceInside(chunk, nx, ny, nz, currentBlock, isWater) ==
    LET neighbor == chunkGetBlock(chunk, nx, ny, nz)
    IN IF ~inChunkRange(nx, ny, nz) THEN FALSE
       ELSE IF neighbor = AIR THEN TRUE
       ELSE IF isVegetationBlock(neighbor) THEN TRUE
       ELSE IF isWater THEN neighbor # WATER
       ELSE isBlockTransparent(neighbor) /\ neighbor # currentBlock

shouldRenderFace(chunk, nx, ny, nz, currentBlock, isWater) ==
    LET neighbor == chunkGetBlock(chunk, nx, ny, nz)
    IN IF neighbor = AIR THEN TRUE
       ELSE IF isVegetationBlock(neighbor) THEN TRUE
       ELSE IF isWater THEN neighbor # WATER
       ELSE isBlockTransparent(neighbor) /\ neighbor # currentBlock

FaceDirs ==
    [top |-> {<<0, 1, 0>>}, bottom |-> {<<0, -1, 0>>},
     side |-> {<<0, 0, 1>>, <<0, 0, -1>>, <<1, 0, 0>>, <<-1, 0, 0>>}]

\* the faces of the voxels of type block that the face class receives
batchFaces(chunk, block, dirs) ==
    {<<q, d>> \in ProbedLocal(chunk.x, chunk.z) \X dirs :
        /\ chunkGetBlock(chunk, q[1], q[2], q[3]) = block
        /\ shouldRenderFace(chunk, q[1] + d[1], q[2] + d[2], q[3] + d[3],
                            block, block = WATER)}

\* rank of a voxel in the x, y, z loop nest of buildMesh
loopRank(q) == (q[1] * CHUNK_HEIGHT + q[2]) * CHUNK_SIZE + q[3]

\* the block types the loop nest of buildMesh meets
presentTypes(chunk) == {chunk.blocks[i] : i \in DOMAIN chunk.blocks} \ {AIR}

\* the keys of a Map filled in loop order with the types of wanted, in
\* insertion order
typesInOrder(chunk, wanted) ==
    LET voxelsOf(b) == {v \in ProbedLocal(chunk.x, chunk.z) :
                           chunkGetBlock(chunk, v[1], v[2], v[3]) = b}
        first(b) == CHOOSE r \in {loopRank(q) : q \in voxelsOf(b)} :
                        \A q \in voxelsOf(b) : r <= loopRank(q)
    IN SortedSeq(wanted, [b \in wanted |-> first(b)])

RECURSIVE blockBatches(_, _)
blockBatches(chunk, types) ==
    IF types = <<>> THEN <<>>
    ELSE LET batch(faceType, faces) ==
                 IF faces = {} THEN <<>>
                 ELSE <<[block |-> Head(types), faceType |-> faceType,
                         faces |-> faces]>>
             one(faceType) ==
                 batch(faceType,
                       batchFaces(chunk, Head(types), FaceDirs[faceType]))
         IN one("top") \o one("side") \o one("bottom")
                \o blockBatches(chunk, Tail(types))

vegetationBatches(chunk, types) ==
    [i \in 1..Len(types) |->
        [block |-> types[i], faceType |-> "cross",
         faces |-> {<<q, <<0, 0, 0>>>> : q \in
                      {v \in ProbedLocal(chunk.x, chunk.z) :
                          chunkGetBlock(chunk, v[1], v[2], v[3]) = types[i]}}]]

\* the n smallest mesh identities not in use
RECURSIVE FreshIds(_, _)
FreshIds(used, n) ==
    IF n = 0 THEN <<>>
    ELSE LET id == CHOOSE k \in 1..(Cardinality(used) + 1) :
                       k \notin used /\ \A j \in 1..(k - 1) : j \in used
         IN <<id>> \o FreshIds(used \cup {id}, n - 1)

\* Chunk.buildMesh; used: the mesh objects alive at the call
buildMesh(chunk, used) ==
    IF ~chunk.isGenerated THEN chunk
    ELSE
    LET waterFaces ==
            batchFaces(chunk, WATER,
                FaceDirs.top \cup FaceDirs.bottom \cup FaceDirs.side)
        create(batches, ids) ==
            [chunk EXCEPT
               !.meshes = chunk.meshes \o
                   [i \in 1..Len(batches) |->
                       [id |-> ids[i], block |-> batches[i].block,
                        faceType |-> batches[i].faceType,
                        faces |-> batches[i].faces]],
               !.waterMesh = IF waterFaces # {} THEN ids[Len(batches) + 1]
                             ELSE chunk.waterMesh,
               !.isBuilt = TRUE]
        allocate(batches) ==
            create(batches, FreshIds(used, Len(batches) + 1))
    IN allocate(
           blockBatches(chunk, typesInOrder(chunk,
               {b \in presentTypes(chunk) :
                   ~isVegetationBlock(b) /\ b # WATER}))
           \o vegetationBatches(chunk, typesInOrder(chunk,
                  {b \in presentTypes(chunk) : isVegetationBlock(b)})))

\* a faulty variant of rebuildMesh: the geometry is dropped and not rebuilt
rebuildMeshClearsOnly(chunk, used) ==
    [chunk EXCEPT !.meshes = <<>>, !.waterMesh = NoMesh, !.isBuilt = FALSE]

\* Chunk.rebuildMesh
rebuildMesh(chunk, used) ==
    buildMesh([chunk EXCEPT !.meshes = <<>>, !.waterMesh = NoMesh,
                            !.isBuilt = FALSE], used)

\* Chunk.dispose
chunkDispose(chunk) == [chunk EXCEPT !.meshes = <<>>, !.waterMesh = NoMesh]

\* the mesh objects a chunk holds
chunkMeshIds(chunk) ==
    {chunk.meshes[i].id : i \in 1..Len(chunk.meshes)}
        \cup (IF chunk.waterMesh # NoMesh THEN {chunk.waterMesh} ELSE {})

-----------------------------------------------------------------------------
(* World *)

\* a faulty variant of the range test: the whole square of the double loop
candidateOffsetsSquare(rd) == (-rd..rd) \X (-rd..rd)

\* the offsets (dx, dz) of update's double loop with dist <= rd; dist is
\* compared through its square, which orders the same way
candidateOffsets(rd) ==
    {o \in (-rd..rd) \X (-rd..rd) : o[1] * o[1] + o[2] * o[2] <= rd * rd}

\* position of offset o in the order the double loop pushes the candidates
pushOrder(o, rd) == (o[1] + rd) * (2 * rd + 1) + (o[2] + rd)

\* a faulty variant of the sort key: the list stays in push order
sortRankUnsorted(o, rd) == pushOrder(o, rd)

\* the key of the sort of chunksToLoad: dist first; the sort is stable, so
\* candidates of equal dist keep their push order
sortRank(o, rd) ==
    (o[1] * o[1] + o[2] * o[2]) * (2 * rd + 1) * (2 * rd + 1)
        + pushOrder(o, rd)

\* chunksToLoad after the sort by dist
chunksToLoad(playerChunkX, playerChunkZ, rd) ==
    LET candidates(sorted) ==
            [i \in 1..Len(sorted) |->
               [x |-> playerChunkX + sorted[i][1],
                z |-> playerChunkZ + sorted[i][2],
                dist2 |-> sorted[i][1] * sorted[i][1]
                             + sorted[i][2] * sorted[i][2]]]
    IN candidates(SortedSeq(candidateOffsets(rd),
           [o \in candidateOffsets(rd) |-> sortRank(o, rd)]))

\* the mesh objects alive: registered in the scene or held by a chunk
usedMeshIds(chs, sc) ==
    sc \cup UNION {chunkMeshIds(chs[k]) : k \in DOMAIN chs}

\* a faulty variant of the guard: the cap is not consulted
canGenerateUncapped(chunk, generatedThisFrame) == ~chunk.isGenerated

\* the guard of chunk.generate() in the load loop
canGenerate(chunk, generatedThisFrame) ==
    ~chunk.isGenerated /\ generatedThisFrame < maxGeneratePerFrame

\* the guard of chunk.buildMesh() in the load loop
canBuild(chunk, generatedThisFrame) ==
    chunk.isGenerated /\ ~chunk.isBuilt
        /\ generatedThisFrame < maxGeneratePerFrame

\* one iteration of the load loop of update for candidate c;
\* st = [chunks, scene, generatedThisFrame, ops]
loadStep(t, st, c, rnd) ==
    LET key == createChunkKey(c.x, c.z)
        step(chs) ==
            LET doGenerate == canGenerate(chs[key], st.generatedThisFrame)
                generated(chunk, count) ==
                    LET doBuild == canBuild(chunk, count)
                        built(chunk3) ==
                            [chunks |-> [chs EXCEPT ![key] = chunk3],
                             scene |-> IF doBuild
                                       THEN st.scene \cup chunkMeshIds(chunk3)
                                       ELSE st.scene,
                             generatedThisFrame |->
                                 IF doBuild THEN count + 1 ELSE count,
                             ops |-> st.ops
                                 \o (IF doGenerate THEN <<<<"generate", key>>>>
                                     ELSE <<>>)
                                 \o (IF doBuild THEN <<<<"build", key>>>>
                                     ELSE <<>>)]
                    IN built(IF doBuild
                             THEN buildMesh(chunk,
                                            usedMeshIds(chs, st.scene))
                             ELSE chunk)
            IN generated(IF doGenerate THEN generate(t, chs[key], rnd)
                         ELSE chs[key],
                         IF doGenerate THEN st.generatedThisFrame + 1
                         ELSE st.generatedThisFrame)
    IN step(IF key \in DOMAIN st.chunks THEN st.chunks
            ELSE st.chunks @@ (key :> NewChunk(c.x, c.z)))

RECURSIVE loadLoop(_, _, _, _)
loadLoop(t, st, list, rnd) ==
    IF list = <<>> THEN st
    ELSE loadLoop(t, loadStep(t, st, Head(list), rnd), Tail(list), rnd)

\* a faulty variant of the prefix: the separator is left out
clearChunkCacheNoSeparator(cache, chunkKey) ==
    LRUDeleteByPrefix(cache, chunkKey)

clearChunkCache(cache, chunkKey) == LRUDeleteByPrefix(cache, chunkKey \o <<"_">>)

RECURSIVE clearChunkCaches(_, _)
clearChunkCaches(cache, keys) ==
    IF keys = {} THEN cache
    ELSE LET k == CHOOSE kk \in keys : TRUE
         IN clearChunkCaches(clearChunkCache(cache, k), keys \ {k})

Restrict(f, S) == [k \in S |-> f[k]]

\* World.update; the result is the whole post-state of the call, with the
\* generate/build operations in the order performed (ops) and the chunk
\* objects unloaded, as they were before and after their disposal
worldUpdate(t, chs, cache, sc, playerX, playerZ, rnd) ==
    LET playerChunkX == FloorDiv(playerX, 2 * CHUNK_SIZE)
        playerChunkZ == FloorDiv(playerZ, 2 * CHUNK_SIZE)
        unload(loaded, chunksToUnload) ==
            [chunks |-> Restrict(loaded.chunks,
                                 DOMAIN loaded.chunks \ chunksToUnload),
             blockCache |-> clearChunkCaches(cache, chunksToUnload),
             scene |-> loaded.scene \
                 UNION {chunkMeshIds(loaded.chunks[k]) : k \in chunksToUnload},
             chunksLoaded |->
                 Cardinality(DOMAIN loaded.chunks \ chunksToUnload),
             chunksRendered |->
                 Cardinality({k \in DOMAIN loaded.chunks \ chunksToUnload :
                                 loaded.chunks[k].isBuilt}),
             ops |-> loaded.ops,
             unloaded |-> [k \in chunksToUnload |->
                             [before |-> loaded.chunks[k],
                              after |-> chunkDispose(loaded.chunks[k])]],
             playerChunk |-> <<playerChunkX, playerChunkZ>>]
        sweep(list, loaded) ==
            unload(loaded,
                   {k \in DOMAIN loaded.chunks :
                       k \notin {createChunkKey(list[i].x, list[i].z) :
                                    i \in 1..Len(list)}})
        load(list) ==
            sweep(list, loadLoop(t, [chunks |-> chs, scene |-> sc,
                                     generatedThisFrame |-> 0, ops |-> <<>>],
                                 list, rnd))
    IN load(chunksToLoad(playerChunkX, playerChunkZ, RenderDistance))

\* the clamps on y at the top of getBlockAt and setBlock
belowWorld(worldY) == worldY < 0

\* a faulty variant of the upper clamp: y = CHUNK_HEIGHT passes
aboveWorldExclusive(worldY) == worldY > 2 * CHUNK_HEIGHT

aboveWorld(worldY) == worldY >= 2 * CHUNK_HEIGHT

\* a faulty variant of World.getBlockAt: a value read from the chunk is
\* returned without being cached
worldGetBlockAtChunkUncached(t, chs, cache, worldX, worldY, worldZ) ==
    IF belowWorld(worldY)
    THEN [ret |-> BEDROCK, blockCache |-> cache, cached |-> FALSE]
    ELSE IF aboveWorld(worldY)
    THEN [ret |-> AIR, blockCache |-> cache, cached |-> FALSE]
    ELSE
    LET bx == Floor(worldX)
        by == Floor(worldY)
        bz == Floor(worldZ)
        chunkX == FloorDiv(bx, CHUNK_SIZE)
        chunkZ == FloorDiv(bz, CHUNK_SIZE)
        chunkKey == createChunkKey(chunkX, chunkZ)
        cacheKey == blockCacheKey(chunkKey, bx, by, bz)
        lookup(cached) ==
            IF cached.hit
            THEN [ret |-> cached.value, blockCache |-> cached.cache,
                  cached |-> TRUE]
            ELSE IF chunkKey \in DOMAIN chs /\ chs[chunkKey].isGenerated
            THEN [ret |-> chunkGetBlock(chs[chunkKey], bx - chunkX * CHUNK_SIZE,
                                        by, bz - chunkZ * CHUNK_SIZE),
                  blockCache |-> cached.cache, cached |-> FALSE]
            ELSE [ret |-> generatorGetBlockAt(t, bx, by, bz),
                  blockCache |-> LRUSet(cache, BlockCacheMaxSize, cacheKey,
                                        generatorGetBlockAt(t, bx, by, bz)),
                  cached |-> FALSE]
    IN lookup(LRUGet(cache, cacheKey))

\* World.getBlockAt: [ret, blockCache, cached]; cached tells whether the
\* answer came from the block cache
worldGetBlockAt(t, chs, cache, worldX, worldY, worldZ) ==
    IF belowWorld(worldY)
    THEN [ret |-> BEDROCK, blockCache |-> cache, cached |-> FALSE]
    ELSE IF aboveWorld(worldY)
    THEN [ret |-> AIR, blockCache |-> cache, cached |-> FALSE]
    ELSE
    LET bx == Floor(worldX)
        by == Floor(worldY)
        bz == Floor(worldZ)
        chunkX == FloorDiv(bx, CHUNK_SIZE)
        chunkZ == FloorDiv(bz, CHUNK_SIZE)
        chunkKey == createChunkKey(chunkX, chunkZ)
        cacheKey == blockCacheKey(chunkKey, bx, by, bz)
        store(block) ==
            [ret |-> block,
             blockCache |-> LRUSet(cache, BlockCacheMaxSize, cacheKey, block),
             cached |-> FALSE]
        lookup(cached) ==
            IF cached.hit
            THEN [ret |-> cached.value, blockCache |-> cached.cache,
                  cached |-> TRUE]
            ELSE IF chunkKey \in DOMAIN chs /\ chs[chunkKey].isGenerated
            THEN store(chunkGetBlock(chs[chunkKey], bx - chunkX * CHUNK_SIZE,
                                     by, bz - chunkZ * CHUNK_SIZE))
            ELSE store(generatorGetBlockAt(t, bx, by, bz))
    IN lookup(LRUGet(cache, cacheKey))

\* a faulty variant of World.rebuildChunk: the old meshes stay in the scene
rebuildChunkKeepsOld(chs, sc, chunkKey) ==
    LET added(rebuilt) ==
            [chunk |-> rebuilt, scene |-> sc \cup chunkMeshIds(rebuilt)]
    IN added(rebuildMesh(chs[chunkKey],
                 usedMeshIds(Restrict(chs, DOMAIN chs \ {chunkKey}), sc)))

\* World.rebuildChunk: [chunk, scene]
rebuildChunk(chs, sc, chunkKey) ==
    LET added(rebuilt) ==
            [chunk |-> rebuilt,
             scene |-> (sc \ chunkMeshIds(chs[chunkKey]))
                           \cup chunkMeshIds(rebuilt)]
    IN added(rebuildMesh(chs[chunkKey],
                 usedMeshIds(Restrict(chs, DOMAIN chs \ {chunkKey}),
                             sc \ chunkMeshIds(chs[chunkKey]))))

\* a faulty variant of the guard: the generated flag is not consulted
chunkWritablePresent(chs, chunkKey) == chunkKey \in DOMAIN chs

\* the guard of setBlock on the chunk it found
chunkWritable(chs, chunkKey) ==
    chunkKey \in DOMAIN chs /\ chs[chunkKey].isGenerated

\* World.setBlock: [ret, chunks, blockCache, scene]
worldSetBlock(chs, cache, sc, worldX, worldY, worldZ, blockType) ==
    LET unchanged == [ret |-> FALSE, chunks |-> chs, blockCache |-> cache,
                      scene |-> sc]
        bx == Floor(worldX)
        by == Floor(worldY)
        bz == Floor(worldZ)
        chunkX == FloorDiv(bx, CHUNK_SIZE)
        chunkZ == FloorDiv(bz, CHUNK_SIZE)
        chunkKey == createChunkKey(chunkX, chunkZ)
        finish(rebuilt) ==
            [ret |-> TRUE,
             chunks |-> [chs EXCEPT ![chunkKey] = rebuilt.chunk],
             blockCache |-> LRUDelete(cache,
                               blockCacheKey(chunkKey, bx, by, bz)),
             scene |-> rebuilt.scene]
    IN IF belowWorld(worldY) \/ aboveWorld(worldY) THEN unchanged
       ELSE IF ~chunkWritable(chs, chunkKey) THEN unchanged
       ELSE finish(rebuildChunk(
                [chs EXCEPT ![chunkKey] =
                    chunkSetBlock(chs[chunkKey], bx - chunkX * CHUNK_SIZE, by,
                                  bz - chunkZ * CHUNK_SIZE, blockType)],
                sc, chunkKey))

-----------------------------------------------------------------------------
(* The state machine: one action per public operation of World.  last is   *)
(* the record of the call that produced the state (arguments, return value,*)
(* the generate/build operations in the order performed, the chunk objects *)
(* unloaded); streak counts the consecutive update calls made with the     *)
(* observer in the same chunk.  The World actions use the generator through*)
(* its operators, whose results do not depend on its memo table; the memo  *)
(* table (columnCache) is followed in SpecGenerator, and the recency stamps*)
(* of an LRUCache (recency) in SpecLRU; the World actions leave both alone.*)

EmptyMap == [k \in {} |-> 0]

\* observer positions in half blocks: chunk (0,0) and chunk (2,0)
ObserverInputs == {<<16, 16>>, <<65, 1>>}

\* read positions in half blocks: (-12.5, 75.5, 6.5) in voxel (-13,75,6),
\* voxel (1,71,160), and y = -0.5 and y = 256
ReadInputs ==
    {<<-25, 151, 13>>, <<2, 142, 320>>, <<-25, -1, 13>>, <<-25, 512, 13>>}

WriteInputs ==
    {<<-25, 151, 13>>, <<2, 142, 320>>, <<-25, -1, 13>>, <<-25, 512, 13>>}

WriteTypes == {AIR, WATER}

\* corners of a canopy whose outcome a probed voxel can show
ObservedCorners ==
    {o \in LeafCorners : \E c \in ProbeColumns, p \in Probes :
        p[1] = c[1] + o[1] /\ p[3] = c[2] + o[2]}

RandomDraws == [treeHeight : TreeHeights, skip : SUBSET ObservedCorners]

CandidateCount == Cardinality(candidateOffsets(RenderDistance))

\* the history of a cache before any call on it: used lists the keys by
\* their last get hit or set, written by their last set, oldest first
NoRecency == [used |-> <<>>, written |-> <<>>]

\* MiningSystem as constructed: nothing targeted
NoMining ==
    [targetBlock |-> <<>>, breakProgress |-> 0, maxBreakTime |-> 0,
     isBreaking |-> FALSE]

\* no player inventory is part of the run
NoInventory == [hotbar |-> <<>>, mainInventory |-> <<>>, selectedSlot |-> 0]

NoCall ==
    [op |-> "new", args |-> <<>>, ret |-> "void", ops |-> <<>>,
     unloaded |-> EmptyMap, cached |-> FALSE, dropped |-> {}]

Init ==
    /\ terrain \in Terrains
    /\ chunks = EmptyMap
    /\ blockCache = <<>>
    /\ scene = {}
    /\ chunksLoaded = 0
    /\ chunksRendered = 0
    /\ last = NoCall
    /\ streak = [chunk |-> <<>>, n |-> 0]
    /\ columnCache = EmptyMap
    /\ recency = NoRecency
    /\ mining = NoMining
    /\ inventory = NoInventory

Update(playerX, playerZ, rnd) ==
    \E r \in {worldUpdate(terrain, chunks, blockCache, scene,
                          playerX, playerZ, rnd)} :
       /\ chunks' = r.chunks
       /\ blockCache' = r.blockCache
       /\ scene' = r.scene
       /\ chunksLoaded' = r.chunksLoaded
       /\ chunksRendered' = r.chunksRendered
       /\ last' = [NoCall EXCEPT
                     !.op = "update", !.args = <<playerX, playerZ>>,
                     !.ops = r.ops, !.unloaded = r.unloaded,
                     !.dropped = LRUKeys(blockCache) \ LRUKeys(r.blockCache)]
       /\ streak' = [chunk |-> r.playerChunk,
                     n |-> IF streak.chunk = r.playerChunk
                           THEN Min(streak.n + 1, CandidateCount + 1)
                           ELSE 1]
       /\ UNCHANGED <<terrain, columnCache, recency, mining, inventory>>

GetBlockAt(worldX, worldY, worldZ) ==
    \E r \in {worldGetBlockAt(terrain, chunks, blockCache,
                              worldX, worldY, worldZ)} :
       /\ blockCache' = r.blockCache
       /\ last' = [NoCall EXCEPT
                     !.op = "getBlockAt", !.args = <<worldX, worldY, worldZ>>,
                     !.ret = r.ret, !.cached = r.cached]
       /\ UNCHANGED <<terrain, chunks, scene, chunksLoaded, chunksRendered,
                      streak, columnCache, recency, mining, inventory>>

SetBlock(worldX, worldY, worldZ, blockType) ==
    \E r \in {worldSetBlock(chunks, blockCache, scene,
                            worldX, worldY, worldZ, blockType)} :
       /\ chunks' = r.chunks
       /\ blockCache' = r.blockCache
       /\ scene' = r.scene
       /\ last' = [NoCall EXCEPT
                     !.op = "setBlock",
                     !.args = <<worldX, worldY, worldZ, blockType>>,
                     !.ret = r.ret,
                     !.dropped = LRUKeys(blockCache) \ LRUKeys(r.blockCache)]
       /\ UNCHANGED <<terrain, chunksLoaded, chunksRendered, streak,
                      columnCache, recency, mining, inventory>>

\* World.dispose; the two counters are not touched
Dispose ==
    /\ chunks' = EmptyMap
    /\ blockCache' = <<>>
    /\ scene' = scene \ usedMeshIds(chunks, {})
    /\ last' = [NoCall EXCEPT !.op = "dispose"]
    /\ streak' = [chunk |-> <<>>, n |-> 0]
    /\ UNCHANGED <<terrain, chunksLoaded, chunksRendered, columnCache,
                   recency, mining, inventory>>

Next ==
    \/ \E p \in ObserverInputs, rnd \in RandomDraws : Update(p[1], p[2], rnd)
    \/ \E p \in ReadInputs : GetBlockAt(p[1], p[2], p[3])
    \/ \E p \in WriteInputs, b \in WriteTypes : SetBlock(p[1], p[2], p[3], b)
    \/ Dispose

Spec == Init /\ [][Next]_vars

-----------------------------------------------------------------------------
(* Properties *)

\* the voxels the reads and the writes address inside the world's height
Voxels ==
    {<<Floor(p[1]), Floor(p[2]), Floor(p[3])>> :
        p \in {q \in ReadInputs \cup WriteInputs :
                  q[2] >= 0 /\ q[2] < 2 * CHUNK_HEIGHT}}

voxelChunkKey(v) ==
    createChunkKey(FloorDiv(v[1], CHUNK_SIZE), FloorDiv(v[3], CHUNK_SIZE))

voxelCacheKey(v) == blockCacheKey(voxelChunkKey(v), v[1], v[2], v[3])

\* the voxel of v in the grid of its chunk c
storedVoxel(c, v) ==
    chunkGetBlock(c, v[1] - c.x * CHUNK_SIZE, v[2], v[3] - c.z * CHUNK_SIZE)

\* what deriving voxel v afresh yields in the current state
rederive(v) ==
    IF /\ voxelChunkKey(v) \in DOMAIN chunks
       /\ chunks[voxelChunkKey(v)].isGenerated
    THEN storedVoxel(chunks[voxelChunkKey(v)], v)
    ELSE generatorGetBlockAt(terrain, v[1], v[2], v[3])

\* the voxel the arguments of the last getBlockAt or setBlock address
lastVoxel == <<Floor(last.args[1]), Floor(last.args[2]), Floor(last.args[3])>>

lastInHeight == last.args[2] >= 0 /\ last.args[2] < 2 * CHUNK_HEIGHT

\* C1: in every reachable state every entry of the block cache holds the
\* value that deriving it afresh would yield: the voxel of the owning chunk
\* when that chunk is live and generated, the generator's value otherwise;
\* entries cached through the generator fallback before the chunk was
\* generated included.
CacheSound ==
    /\ LRUKeys(blockCache) \subseteq {voxelCacheKey(v) : v \in Voxels}
    /\ \A v \in Voxels :
          LRUHas(blockCache, voxelCacheKey(v))
              => LRUValue(blockCache, voxelCacheKey(v)) = rederive(v)

\* C2: setBlock(x, y, z, T) that succeeds, followed at once by
\* getBlockAt(x, y, z), returns T, and T is the voxel the owning chunk
\* stores, also when the coordinate was in the cache before the edit.
SetThenGet ==
    (last.op = "setBlock" /\ last.ret = TRUE) =>
        /\ worldGetBlockAt(terrain, chunks, blockCache, last.args[1],
                           last.args[2], last.args[3]).ret = last.args[4]
        /\ storedVoxel(chunks[voxelChunkKey(lastVoxel)], lastVoxel)
               = last.args[4]

\* an edit of a cached coordinate to a value other than the cached one
SetThenGetCached ==
    /\ last.op = "setBlock"
    /\ last.ret = TRUE
    /\ last.args[4] = WATER
    /\ voxelCacheKey(lastVoxel) \in last.dropped

\* the chunk keys within the render distance of observer chunk pc, from
\* the distance alone
keysInRange(pc) ==
    {createChunkKey(c[1], c[2]) :
        c \in {d \in ((pc[1] - RenderDistance)..(pc[1] + RenderDistance))
                    \X ((pc[2] - RenderDistance)..(pc[2] + RenderDistance)) :
                  (d[1] - pc[1]) * (d[1] - pc[1])
                      + (d[2] - pc[2]) * (d[2] - pc[2])
                      <= RenderDistance * RenderDistance}}

\* the observer chunk of the last update call
lastObserverChunk ==
    <<FloorDiv(last.args[1], 2 * CHUNK_SIZE),
      FloorDiv(last.args[2], 2 * CHUNK_SIZE)>>

\* C3: when an update call returns, the key set of the chunk map is exactly
\* the set of chunk coordinates within renderDistance of the observer's
\* chunk: none missing, none left over.
LiveKeysExact ==
    last.op = "update" => DOMAIN chunks = keysInRange(lastObserverChunk)

\* an update after a move: chunks were unloaded, and a chunk the cap kept
\* from being generated is in the map all the same
LiveKeysExactMoved ==
    /\ last.op = "update"
    /\ DOMAIN last.unloaded # {}
    /\ \E k \in DOMAIN chunks : ~chunks[k].isGenerated

\* C4: with the observer in one chunk, after at most N consecutive update
\* calls (N the number of coordinates in range) every live chunk is
\* generated and built and chunksRendered = chunksLoaded = N; every later
\* update performs no generate and no build.
WorkDrains ==
    /\ streak.n >= CandidateCount =>
          /\ \A k \in DOMAIN chunks :
                chunks[k].isGenerated /\ chunks[k].isBuilt
          /\ chunksRendered = CandidateCount
          /\ chunksLoaded = CandidateCount
    /\ (last.op = "update" /\ streak.n > CandidateCount) => last.ops = <<>>

\* the update after the N-th of a streak
WorkDrained ==
    /\ last.op = "update"
    /\ streak.n > CandidateCount
    /\ chunksRendered = CandidateCount
    /\ last.ops = <<>>

\* C5: one update call performs at most 2 generate and buildMesh
\* executions together.
CapRespected == last.op = "update" => Len(last.ops) <= 2

\* a call that used the whole cap and left a candidate ungenerated
CapReached ==
    /\ last.op = "update"
    /\ Len(last.ops) = 2
    /\ \E k \in DOMAIN chunks : ~chunks[k].isGenerated

\* the chunk of key k was generated and built when operation j of the
\* update call now returning was performed (chunks: the map at the call)
completeAt(k, j) ==
    \/ /\ k \in DOMAIN chunks
       /\ chunks[k].isGenerated
       /\ chunks[k].isBuilt
    \/ \E i \in 1..(j - 1) : last'.ops[i] = <<"build", k>>

\* C6: within one update call, when a generate or a build is performed on
\* a chunk, every candidate nearer to the observer's chunk is already
\* generated and built.
NearestFirst ==
    [][last'.op = "update" =>
         \A j \in 1..Len(last'.ops) :
            \A o, n \in (-RenderDistance..RenderDistance)
                           \X (-RenderDistance..RenderDistance) :
               (/\ o[1] * o[1] + o[2] * o[2] <= RenderDistance * RenderDistance
                /\ n[1] * n[1] + n[2] * n[2] < o[1] * o[1] + o[2] * o[2]
                /\ last'.ops[j][2]
                      = createChunkKey(
                            FloorDiv(last'.args[1], 2 * CHUNK_SIZE) + o[1],
                            FloorDiv(last'.args[2], 2 * CHUNK_SIZE) + o[2]))
               => completeAt(createChunkKey(
                      FloorDiv(last'.args[1], 2 * CHUNK_SIZE) + n[1],
                      FloorDiv(last'.args[2], 2 * CHUNK_SIZE) + n[2]), j)]_vars

\* a call whose operations went to a chunk other than the observer's
NearestFirstFarther ==
    /\ last.op = "update"
    /\ Len(last.ops) = 2
    /\ last.ops[1][2] # createChunkKey(lastObserverChunk[1],
                                       lastObserverChunk[2])

\* the cache keys of the voxels of the chunk of key k
keysOfChunk(k) == {voxelCacheKey(v) : v \in {w \in Voxels : voxelChunkKey(w) = k}}

\* what C7 states apart from the cache: the batches of every unloaded chunk
\* are out of the scene, dispose has run on it, the map does not hold it
unloadedGone ==
    \A k \in DOMAIN last.unloaded :
        /\ chunkMeshIds(last.unloaded[k].before) \cap scene = {}
        /\ last.unloaded[k].after.meshes = <<>>
        /\ last.unloaded[k].after.waterMesh = NoMesh
        /\ k \notin DOMAIN chunks

\* C7 (as amended): when update unloads a chunk, on return its geometry
\* batches and its water batch are not registered in the scene, dispose has
\* been called on it, the chunk map does not hold it, and the block cache
\* holds no entry of that chunk (no key starting with the chunk's key
\* followed by "_"); the entries of all other chunks are left in place.
UnloadCleans ==
    last.op = "update" =>
        /\ unloadedGone
        /\ \A k \in DOMAIN last.unloaded, c \in LRUKeys(blockCache) :
              ~startsWith(c, k \o <<"_">>)
        /\ last.dropped \subseteq UNION {keysOfChunk(k) : k \in DOMAIN last.unloaded}

\* an unloaded chunk that had batches, a water batch and a cached voxel
UnloadCleansBuilt ==
    /\ last.op = "update"
    /\ \E k \in DOMAIN last.unloaded :
          /\ last.unloaded[k].before.meshes # <<>>
          /\ last.unloaded[k].before.waterMesh # NoMesh
          /\ keysOfChunk(k) \cap last.dropped # {}

\* C7 as stated: as above, but the block cache holds no entry whose key
\* starts with the key of an unloaded chunk.
UnloadCleansByKeyPrefix ==
    last.op = "update" =>
        /\ unloadedGone
        /\ \A k \in DOMAIN last.unloaded, c \in LRUKeys(blockCache) :
              ~startsWith(c, k)
        /\ last.dropped \subseteq UNION {keysOfChunk(k) : k \in DOMAIN last.unloaded}

\* C8: setBlock on a coordinate whose chunk is absent from the map or not
\* generated returns false and changes nothing: the chunk map, the voxels,
\* the cache, the meshes and the scene are as before.
SetBlockRefused ==
    [][(/\ last'.op = "setBlock"
        /\ ~(/\ createChunkKey(
                    FloorDiv(Floor(last'.args[1]), CHUNK_SIZE),
                    FloorDiv(Floor(last'.args[3]), CHUNK_SIZE))
                 \in DOMAIN chunks
             /\ chunks[createChunkKey(
                    FloorDiv(Floor(last'.args[1]), CHUNK_SIZE),
                    FloorDiv(Floor(last'.args[3]), CHUNK_SIZE))].isGenerated))
       => /\ last'.ret = FALSE
          /\ UNCHANGED <<chunks, blockCache, scene, chunksLoaded,
                         chunksRendered>>]_vars

\* a refused write to a chunk that is in the map but not generated
SetBlockRefusedUngenerated ==
    /\ last.op = "setBlock"
    /\ last.ret = FALSE
    /\ lastInHeight
    /\ voxelChunkKey(lastVoxel) \in DOMAIN chunks
    /\ ~chunks[voxelChunkKey(lastVoxel)].isGenerated

\* C9: getBlockAt returns BEDROCK for y < 0 and AIR for y >= 256 without
\* consulting or changing the cache, the chunk map or the generator;
\* setBlock with such a y returns false and changes nothing.
HeightClamped ==
    [][/\ (last'.op = "getBlockAt" /\ last'.args[2] < 0)
            => last'.ret = BEDROCK
       /\ (last'.op = "getBlockAt" /\ last'.args[2] >= 2 * 256)
            => last'.ret = AIR
       /\ (/\ last'.op = "getBlockAt"
           /\ (last'.args[2] < 0 \/ last'.args[2] >= 2 * 256))
            => /\ ~last'.cached
               /\ UNCHANGED <<chunks, blockCache, scene, chunksLoaded,
                              chunksRendered>>
       /\ (/\ last'.op = "setBlock"
           /\ (last'.args[2] < 0 \/ last'.args[2] >= 2 * 256))
            => /\ last'.ret = FALSE
               /\ UNCHANGED <<chunks, blockCache, scene, chunksLoaded,
                              chunksRendered>>]_vars

\* a read at y = 256 while the column's chunk is generated and a voxel of
\* the column is in the cache
HeightClampedAbove ==
    /\ last.op = "getBlockAt"
    /\ last.args[2] >= 2 * 256
    /\ last.ret = AIR
    /\ blockCache # <<>>
    /\ \E k \in DOMAIN chunks : chunks[k].isGenerated

\* C10: a chunk is populated at most once while it exists: generate on a
\* generated chunk changes neither the grid nor a flag, and a chunk that
\* stays in the map stays generated with its voxels as they are, except
\* the voxel a successful setBlock writes.
GeneratedOnce ==
    [][/\ \A k \in DOMAIN chunks, rnd \in RandomDraws :
             chunks[k].isGenerated
                 => generate(terrain, chunks[k], rnd) = chunks[k]
       /\ \A k \in DOMAIN chunks \cap DOMAIN chunks' :
             chunks[k].isGenerated =>
                 /\ chunks'[k].isGenerated
                 /\ \A i \in DOMAIN chunks[k].blocks :
                       \/ chunks'[k].blocks[i] = chunks[k].blocks[i]
                       \/ /\ last'.op = "setBlock"
                          /\ last'.ret = TRUE
                          /\ chunks'[k].blocks[i] = last'.args[4]]_vars

\* a voxel written by setBlock in place after a later update call
GeneratedOnceEdited ==
    /\ last.op = "update"
    /\ last.ops # <<>>
    /\ \E k \in DOMAIN chunks :
          \E i \in DOMAIN chunks[k].blocks : chunks[k].blocks[i] = WATER

\* the batches of a chunk without the identities of their mesh objects
batchesOf(c) ==
    [i \in 1..Len(c.meshes) |->
        [block |-> c.meshes[i].block, faceType |-> c.meshes[i].faceType,
         faces |-> c.meshes[i].faces]]

\* chunk c as it is after generate and before its first buildMesh
unbuilt(c) ==
    [c EXCEPT !.meshes = <<>>, !.waterMesh = NoMesh, !.isBuilt = FALSE]

\* C11: a setBlock call that returns true has rebuilt the mesh of the
\* owning chunk when it returns: isBuilt is true, the batches are those of
\* the voxels as written and are registered in the scene; the same call on
\* the chunk generated but not built ends with isBuilt true as well.
SetBlockRebuilds ==
    (last.op = "setBlock" /\ last.ret = TRUE) =>
        \E k \in {voxelChunkKey(lastVoxel)} :
            /\ chunks[k].isBuilt
            /\ chunkMeshIds(chunks[k]) \subseteq scene
            /\ batchesOf(chunks[k]) = batchesOf(buildMesh(unbuilt(chunks[k]), {}))
            /\ worldSetBlock([chunks EXCEPT ![k] = unbuilt(chunks[k])],
                             blockCache, scene \ chunkMeshIds(chunks[k]),
                             last.args[1], last.args[2], last.args[3],
                             last.args[4]).chunks[k].isBuilt

\* a write that changed the batches of its chunk: the trunk voxel under
\* the written one shows its top face
SetBlockRebuilt ==
    /\ last.op = "setBlock"
    /\ last.ret = TRUE
    /\ last.args[4] = AIR
    /\ \E k \in {voxelChunkKey(lastVoxel)} :
          \E i \in 1..Len(chunks[k].meshes) :
              /\ chunks[k].meshes[i].block = WOOD
              /\ chunks[k].meshes[i].faceType = "top"

-----------------------------------------------------------------------------
(* Chunk on its own: getBlock and setBlock applied to a fresh Chunk object *)
(* with coordinates inside and outside the grid.                           *)

FarChunk == <<40, 40>>

LocalX == {-1, 0, 15, 16}

LocalZ == {-1, 0, 1, 15, 16}

LocalY == {-1, 0, 15, 16, 255, 256}

StoredTypes == {AIR, STONE, WATER}

InitChunk ==
    /\ terrain = [signals |-> [c \in ProbeColumns |-> PlainsSignals],
                  noise |-> QuietNoise]
    /\ chunks = (createChunkKey(FarChunk[1], FarChunk[2])
                    :> NewChunk(FarChunk[1], FarChunk[2]))
    /\ blockCache = <<>>
    /\ scene = {}
    /\ chunksLoaded = 0
    /\ chunksRendered = 0
    /\ last = NoCall
    /\ streak = [chunk |-> <<>>, n |-> 0]
    /\ columnCache = EmptyMap
    /\ recency = NoRecency
    /\ mining = NoMining
    /\ inventory = NoInventory

ChunkGetBlock(k, x, y, z) ==
    /\ last' = [NoCall EXCEPT !.op = "Chunk.getBlock", !.args = <<x, y, z>>,
                              !.ret = chunkGetBlock(chunks[k], x, y, z)]
    /\ UNCHANGED <<terrain, chunks, blockCache, scene, chunksLoaded,
                   chunksRendered, streak, columnCache, recency,
                   mining, inventory>>

ChunkSetBlock(k, x, y, z, type) ==
    /\ chunks' = [chunks EXCEPT ![k] = chunkSetBlock(chunks[k], x, y, z, type)]
    /\ last' = [NoCall EXCEPT !.op = "Chunk.setBlock",
                              !.args = <<x, y, z, type>>]
    /\ UNCHANGED <<terrain, blockCache, scene, chunksLoaded, chunksRendered,
                   streak, columnCache, recency, mining, inventory>>

NextChunk ==
    \/ \E k \in DOMAIN chunks, x \in LocalX, y \in LocalY, z \in LocalZ :
          ChunkGetBlock(k, x, y, z)
    \/ \E k \in DOMAIN chunks, x \in LocalX, y \in LocalY, z \in LocalZ,
          type \in StoredTypes : ChunkSetBlock(k, x, y, z, type)

SpecChunk == InitChunk /\ [][NextChunk]_vars

farKey == createChunkKey(FarChunk[1], FarChunk[2])

\* C12: Chunk.getBlock returns AIR and Chunk.setBlock changes no voxel when
\* x or z is outside [0,16) or y is outside [0,256); for coordinates in range
\* setBlock changes the voxel of index x + 16*y + 4096*z to the type written
\* and changes nothing else of the chunk, and getBlock returns that voxel.
ChunkAccessBounded ==
    [][LET check(x, y, z, inside, index) ==
              /\ last'.op = "Chunk.getBlock" =>
                  /\ ~inside => last'.ret = AIR
                  /\ (inside /\ index \in DOMAIN chunks[farKey].blocks) =>
                         last'.ret = chunks[farKey].blocks[index]
              /\ last'.op = "Chunk.setBlock" =>
                  /\ ~inside => chunks' = chunks
                  /\ inside =>
                        /\ chunks'[farKey].blocks =
                              [i \in DOMAIN chunks[farKey].blocks |->
                                  IF i = index THEN last'.args[4]
                                  ELSE chunks[farKey].blocks[i]]
                        /\ chunks' = [chunks EXCEPT ![farKey].blocks =
                                         chunks'[farKey].blocks]
       IN \A a \in {last'.args} :
             Len(a) >= 3 =>
                check(a[1], a[2], a[3],
                      a[1] \in 0..15 /\ a[2] \in 0..255 /\ a[3] \in 0..15,
                      a[1] + 16 * a[2] + 4096 * a[3])]_vars

\* a write outside the grid whose unchecked index would be that of the
\* voxel (0,16,0), which an earlier write in range set to STONE
ChunkAccessOutside ==
    /\ last.op = "Chunk.setBlock"
    /\ last.args = <<16, 15, 0, WATER>>
    /\ chunks[farKey].blocks[256] = STONE
    /\ chunks[farKey].blocks[4096] = WATER

-----------------------------------------------------------------------------
(* TerrainGenerator on its own: getHeight, getBiome and getBlockAt applied *)
(* to columns whose noise signals are drawn from a grid of their ranges.   *)
(* The generator is used through its operators, as in the World actions.   *)

TerrainColumns == {<<-13, 6>>, <<1, 160>>}

\* signals in hundredths over [-1,1] (peaksValleys over [0,1]); a signal the
\* band of the column never reads is kept at one value
SignalGrid ==
    {sig \in [continentalness : {-100, -30, -10, 10, 45, 70, 100},
              erosion : {-100, 100},
              peaksValleys : {0, 100},
              weirdness : {0, 50},
              detailNoise : {-100, 0, 80, 100},
              mountainDetail : {-100, 100},
              temperature : {-100, 0, 100},
              humidity : {-100, 60}] :
        /\ sig.continentalness # 100 => sig.peaksValleys = 0
        /\ sig.continentalness \notin {10, 45, 70} => sig.erosion = 100
        /\ ~(sig.continentalness = 100
               \/ (sig.continentalness = 70 /\ sig.erosion = -100))
              => sig.mountainDetail = 100}

\* the signals of the second column: those of the first with the sign turned
Mirror(sig) ==
    [continentalness |-> -sig.continentalness, erosion |-> -sig.erosion,
     peaksValleys |-> sig.peaksValleys, weirdness |-> sig.weirdness,
     detailNoise |-> -sig.detailNoise, mountainDetail |-> -sig.mountainDetail,
     temperature |-> -sig.temperature, humidity |-> -sig.humidity]

\* 3D noise samples: none of the rules triggered, the bedrock pattern at its
\* widest, caves everywhere, coal, the deeper ores, a stone variant, and
\* caves together with a stone variant and the bedrock pattern
NoiseGrid ==
    {QuietNoise,
     [QuietNoise EXCEPT !.bedrock = 0],
     [QuietNoise EXCEPT !.cave1 = -100, !.cave2 = -100],
     [QuietNoise EXCEPT !.scale8 = 80],
     [QuietNoise EXCEPT !.iron = 80, !.gold = 90, !.diamond = 90],
     [QuietNoise EXCEPT !.variant = 70, !.sub = 50],
     [QuietNoise EXCEPT !.bedrock = 0, !.cave1 = -100, !.cave2 = -100,
                        !.variant = 70, !.sub = -50]}

\* the heights asked of a column of terrain height h
QueryYs(h) ==
    {0, 2, 3, 4, 6, 9, 10, 19, 20, 64, 65, 120} \cup {h - 5, h - 4, h, h + 1}

InitTerrain ==
    /\ terrain \in
          {[signals |-> [c \in TerrainColumns |->
                            IF c = <<-13, 6>> THEN sig ELSE Mirror(sig)],
            noise |-> n] : sig \in SignalGrid, n \in NoiseGrid}
    /\ chunks = EmptyMap
    /\ blockCache = <<>>
    /\ scene = {}
    /\ chunksLoaded = 0
    /\ chunksRendered = 0
    /\ last = NoCall
    /\ streak = [chunk |-> <<>>, n |-> 0]
    /\ columnCache = EmptyMap
    /\ recency = NoRecency
    /\ mining = NoMining
    /\ inventory = NoInventory

GetHeight(worldX, worldZ) ==
    /\ last' = [NoCall EXCEPT !.op = "getHeight", !.args = <<worldX, worldZ>>,
                              !.ret = getHeight(terrain, worldX, worldZ)]
    /\ UNCHANGED <<terrain, chunks, blockCache, scene, chunksLoaded,
                   chunksRendered, streak, columnCache, recency,
                   mining, inventory>>

GetBiome(worldX, worldZ) ==
    /\ last' = [NoCall EXCEPT !.op = "getBiome", !.args = <<worldX, worldZ>>,
                              !.ret = getBiome(terrain, worldX, worldZ)]
    /\ UNCHANGED <<terrain, chunks, blockCache, scene, chunksLoaded,
                   chunksRendered, streak, columnCache, recency,
                   mining, inventory>>

GeneratorGetBlockAt(worldX, worldY, worldZ) ==
    /\ last' = [NoCall EXCEPT
                   !.op = "generator.getBlockAt",
                   !.args = <<worldX, worldY, worldZ>>,
                   !.ret = generatorGetBlockAt(terrain, worldX, worldY, worldZ)]
    /\ UNCHANGED <<terrain, chunks, blockCache, scene, chunksLoaded,
                   chunksRendered, streak, columnCache, recency,
                   mining, inventory>>

NextTerrain ==
    \/ \E c \in TerrainColumns : GetHeight(c[1], c[2])
    \/ \E c \in TerrainColumns : GetBiome(c[1], c[2])
    \/ \E c \in TerrainColumns :
          \E y \in QueryYs(getHeight(terrain, c[1], c[2])) :
             GeneratorGetBlockAt(c[1], y, c[2])

SpecTerrain == InitTerrain /\ [][NextTerrain]_vars

\* C13: whatever the signals of the column, the height getHeight returns is
\* at least 1 and at most worldHeight - 10.
HeightWithinWorld ==
    last.op = "getHeight" => (1 <= last.ret /\ last.ret <= worldHeight - 10)

\* a mountain column whose unclamped height, 85 - 180 - 15, is below 1
HeightWithinWorldClamped ==
    /\ last.op = "getHeight"
    /\ last.args = <<-13, 6>>
    /\ last.ret = 1
    /\ terrain.signals[<<-13, 6>>].continentalness = 100
    /\ terrain.signals[<<-13, 6>>].peaksValleys = 100
    /\ terrain.signals[<<-13, 6>>].detailNoise = -100
    /\ terrain.signals[<<-13, 6>>].mountainDetail = -100

\* C14: a column whose height is above 140 has one of the high altitude
\* biomes (mountain_peaks, snowy_slopes, stony_peaks): neither an ocean or
\* beach biome nor a biome of the temperature and humidity table.
HighIsMountain ==
    (last.op = "getBiome"
        /\ getHeight(terrain, last.args[1], last.args[2]) > 140) =>
        last.ret \in {"mountain_peaks", "snowy_slopes", "stony_peaks"}

\* a column of the foothills band of height 147
HighIsMountainFoothills ==
    /\ last.op = "getBiome"
    /\ last.ret = "mountain_peaks"
    /\ getHeight(terrain, last.args[1], last.args[2]) = 147
    /\ terrain.signals[last.args].continentalness = 70

-----------------------------------------------------------------------------
(* Properties of World, continued *)

\* the blocks the decoration pass of Chunk.generate places
DecorationBlocks == {WOOD, LEAVES} \cup VEGETATION_SET

\* voxel v lies above the terrain height of its column and above the water
aboveSurface(v) ==
    v[2] > getHeight(terrain, v[1], v[3]) /\ v[2] > waterLevel

\* chunk c holds the voxels some run of generate gives a fresh chunk
unedited(c) ==
    \E rnd \in RandomDraws :
        generate(terrain, NewChunk(c.x, c.z), rnd).blocks = c.blocks

\* C15: getBlockAt of a voxel above the terrain height of its column and
\* above the water level returns AIR when the value comes from the generator
\* fallback, and AIR or a block of a tree or of vegetation (WOOD, LEAVES, a
\* vegetation block) when it comes from a generated chunk that setBlock has
\* not edited.
AirAboveSurface ==
    [][(last'.op = "getBlockAt"
          /\ last'.args[2] >= 0 /\ last'.args[2] < 2 * CHUNK_HEIGHT) =>
        \A v \in {<<Floor(last'.args[1]), Floor(last'.args[2]),
                    Floor(last'.args[3])>>} :
           aboveSurface(v) =>
              IF /\ voxelChunkKey(v) \in DOMAIN chunks
                 /\ chunks[voxelChunkKey(v)].isGenerated
              THEN unedited(chunks[voxelChunkKey(v)])
                      => last'.ret \in {AIR} \cup DecorationBlocks
              ELSE last'.ret = AIR]_vars

\* the trunk or the canopy of the tree of column (-13,6), read from the chunk
AirAboveSurfaceTree ==
    /\ last.op = "getBlockAt"
    /\ lastVoxel = <<-13, 75, 6>>
    /\ ~last.cached
    /\ last.ret \in {WOOD, LEAVES}
    /\ aboveSurface(lastVoxel)
    /\ unedited(chunks[voxelChunkKey(lastVoxel)])

\* C15 as stated: AIR also when the value comes from a generated chunk that
\* setBlock has not edited.
AirAboveSurfaceInChunk ==
    [][(last'.op = "getBlockAt"
          /\ last'.args[2] >= 0 /\ last'.args[2] < 2 * CHUNK_HEIGHT) =>
        \A v \in {<<Floor(last'.args[1]), Floor(last'.args[2]),
                    Floor(last'.args[3])>>} :
           aboveSurface(v) =>
              IF /\ voxelChunkKey(v) \in DOMAIN chunks
                 /\ chunks[voxelChunkKey(v)].isGenerated
              THEN unedited(chunks[voxelChunkKey(v)]) => last'.ret = AIR
              ELSE last'.ret = AIR]_vars

-----------------------------------------------------------------------------
(* TerrainGenerator with its column memo: two instances built from the     *)
(* same seed, each with a columnCache of its own, asked in any order.      *)

\* a faulty variant: the memo keyed by x alone
columnCacheKeyX(x, z) == NumberToString(x)

\* `${x},${z}`
columnCacheKey(x, z) == NumberToString(x) \o <<",">> \o NumberToString(z)

\* calculateColumnInfo with its memo: [info, cache]
memoColumnInfo(t, cache, x, z) ==
    IF columnCacheKey(x, z) \in DOMAIN cache
    THEN [info |-> cache[columnCacheKey(x, z)], cache |-> cache]
    ELSE \* the last column set for a key is the one the Map keeps
         [info |-> columnInfo(t, x, z),
          cache |-> [k \in DOMAIN cache \cup {columnCacheKey(x, z)} |->
                        IF k = columnCacheKey(x, z) THEN columnInfo(t, x, z)
                        ELSE cache[k]]]

Instances == {1, 2}

GeneratorColumns == {<<1, 160>>, <<1, 161>>, <<-13, 6>>}

MountainSignals ==
    [PlainsSignals EXCEPT !.continentalness = 100, !.peaksValleys = 100,
                          !.detailNoise = 50, !.mountainDetail = 50]

OceanSignals == [PlainsSignals EXCEPT !.continentalness = -100]

\* the terrains of two seeds
GeneratorTerrains ==
    {[signals |-> [c \in GeneratorColumns |->
                      IF c = <<1, 160>> THEN PlainsSignals
                      ELSE IF c = <<1, 161>> THEN MountainSignals
                      ELSE DesertSignals],
      noise |-> QuietNoise],
     [signals |-> [c \in GeneratorColumns |->
                      IF c = <<1, 160>> THEN OceanSignals
                      ELSE IF c = <<1, 161>> THEN ForestSignals
                      ELSE MountainSignals],
      noise |-> [QuietNoise EXCEPT !.cave1 = -100, !.cave2 = -100]]}

GeneratorYs == {0, 3, 30, 60, 70, 71, 200}

InitGenerator ==
    /\ terrain \in GeneratorTerrains
    /\ chunks = EmptyMap
    /\ blockCache = <<>>
    /\ scene = {}
    /\ chunksLoaded = 0
    /\ chunksRendered = 0
    /\ last = NoCall
    /\ streak = [chunk |-> <<>>, n |-> 0]
    /\ columnCache = [i \in Instances |-> EmptyMap]
    /\ recency = NoRecency
    /\ mining = NoMining
    /\ inventory = NoInventory

MemoGetHeight(i, worldX, worldZ) ==
    \E r \in {memoColumnInfo(terrain, columnCache[i], worldX, worldZ)} :
       /\ columnCache' = [columnCache EXCEPT ![i] = r.cache]
       /\ last' = [NoCall EXCEPT !.op = "memo.getHeight",
                                 !.args = <<i, worldX, worldZ>>,
                                 !.ret = r.info.terrainHeight]
       /\ UNCHANGED <<terrain, chunks, blockCache, scene, chunksLoaded,
                      chunksRendered, streak, recency, mining, inventory>>

MemoGetBlockAt(i, worldX, worldY, worldZ) ==
    \E r \in {memoColumnInfo(terrain, columnCache[i], worldX, worldZ)} :
       /\ columnCache' = [columnCache EXCEPT ![i] = r.cache]
       /\ last' = [NoCall EXCEPT
                      !.op = "memo.getBlockAt",
                      !.args = <<i, worldX, worldY, worldZ>>,
                      !.ret = determineBlock(terrain.noise, worldY, r.info)]
       /\ UNCHANGED <<terrain, chunks, blockCache, scene, chunksLoaded,
                      chunksRendered, streak, recency, mining, inventory>>

\* the flat index generateChunkData stores local voxel (x, y, z) at
chunkDataIndex(x, y, z, chunkSize) ==
    (y * chunkSize * chunkSize) + (z * chunkSize) + x

\* the voxels of chunk (0,10) followed in the array generateChunkData
\* returns, in local coordinates: columns (1,160) and (1,161)
DataChunk == <<0, 10>>

DataVoxels ==
    {<<1, 0, 0>>, <<1, 4, 0>>, <<1, 64, 0>>, <<1, 65, 0>>, <<1, 4, 1>>,
     <<1, 17, 1>>}

\* TerrainGenerator.generateChunkData: the returned array, at the indices of
\* the followed voxels
generateChunkData(t, chunkX, chunkZ, chunkSize) ==
    [idx \in {chunkDataIndex(q[1], q[2], q[3], chunkSize) : q \in DataVoxels} |->
        LET q == CHOOSE v \in DataVoxels :
                     chunkDataIndex(v[1], v[2], v[3], chunkSize) = idx
        IN determineBlock(t.noise, q[2],
               columnInfo(t, chunkX * chunkSize + q[1],
                          chunkZ * chunkSize + q[3]))]

\* generateChunkData computes the columns of a chunk, clears the memo and
\* returns the array
GenerateChunkData(i) ==
    /\ columnCache' = [columnCache EXCEPT ![i] = EmptyMap]
    /\ last' = [NoCall EXCEPT
                  !.op = "generateChunkData",
                  !.args = <<i, DataChunk[1], DataChunk[2]>>,
                  !.ret = generateChunkData(terrain, DataChunk[1],
                                            DataChunk[2], CHUNK_SIZE)]
    /\ UNCHANGED <<terrain, chunks, blockCache, scene, chunksLoaded,
                   chunksRendered, streak, recency, mining, inventory>>

NextGenerator ==
    \/ \E i \in Instances, c \in GeneratorColumns : MemoGetHeight(i, c[1], c[2])
    \/ \E i \in Instances, c \in GeneratorColumns, y \in GeneratorYs :
          MemoGetBlockAt(i, c[1], y, c[2])
    \/ \E i \in Instances : GenerateChunkData(i)

SpecGenerator == InitGenerator /\ [][NextGenerator]_vars

\* C16: for a fixed seed the identifier getBlockAt returns for (x,y,z) is
\* the one the rules give for the signals of that coordinate, whichever of
\* the instances built from the seed is asked, whatever was asked before
\* and whatever its column memo holds.
ClassifierDeterministic ==
    last.op = "memo.getBlockAt" =>
        last.ret = determineBlock(terrain.noise, last.args[3],
                       calculateColumnInfo(
                           terrain.signals[<<last.args[2], last.args[4]>>]))

\* instance 2 asked for column (1,161) while its memo also holds column
\* (1,160), of another block at that height, and the memo of instance 1 is
\* empty
ClassifierDeterministicMemo ==
    /\ last.op = "memo.getBlockAt"
    /\ last.args[1] = 2 /\ last.args[2] = 1 /\ last.args[4] = 161
    /\ DOMAIN columnCache[1] = {}
    /\ DOMAIN columnCache[2] = {columnCacheKey(1, 160), columnCacheKey(1, 161)}
    /\ last.ret # determineBlock(terrain.noise, last.args[3],
                      calculateColumnInfo(terrain.signals[<<1, 160>>]))

-----------------------------------------------------------------------------
(* Properties of the batches of a built chunk *)

AllDirs == FaceDirs.top \cup FaceDirs.bottom \cup FaceDirs.side

\* the pairs <<q, d>> of a followed voxel q of chunk c and a direction d
\* whose neighbour q + d is followed too
adjacentPairs(c) ==
    {<<q, d>> \in ProbedLocal(c.x, c.z) \X AllDirs :
        <<q[1] + d[1], q[2] + d[2], q[3] + d[3]>> \in ProbedLocal(c.x, c.z)}

solidOpaque(b) == b # AIR /\ ~isBlockTransparent(b)

\* the face of voxel q toward d is in a batch of chunk c
hasFace(c, q, d) ==
    \E i \in 1..Len(c.meshes) : <<q, d>> \in c.meshes[i].faces

\* C17: in a built chunk, a solid opaque voxel with an air voxel next to it
\* has its face toward that voxel in the batch of its block type, and two
\* adjacent voxels of the same opaque type have no face between them.
FacesCulled ==
    \A k \in DOMAIN chunks :
        chunks[k].isBuilt =>
            \A p \in adjacentPairs(chunks[k]) :
                LET q == p[1]
                    d == p[2]
                    a == chunkGetBlock(chunks[k], q[1], q[2], q[3])
                    b == chunkGetBlock(chunks[k], q[1] + d[1], q[2] + d[2],
                                       q[3] + d[3])
                IN /\ (solidOpaque(a) /\ b = AIR) =>
                        \E i \in 1..Len(chunks[k].meshes) :
                            /\ chunks[k].meshes[i].block = a
                            /\ <<q, d>> \in chunks[k].meshes[i].faces
                   /\ (solidOpaque(a) /\ b = a) => ~hasFace(chunks[k], q, d)

\* a built chunk with two trunk voxels of a tree one above the other
FacesCulledTrunk ==
    \E k \in DOMAIN chunks :
        /\ chunks[k].isBuilt
        /\ \E p \in adjacentPairs(chunks[k]) :
              /\ chunkGetBlock(chunks[k], p[1][1], p[1][2], p[1][3]) = WOOD
              /\ chunkGetBlock(chunks[k], p[1][1] + p[2][1], p[1][2] + p[2][2],
                               p[1][3] + p[2][3]) = WOOD
              /\ p[2] = <<0, 1, 0>>
              /\ hasFace(chunks[k], p[1], <<0, 0, 1>>)

-----------------------------------------------------------------------------
(* LRUCache on its own: get, set, delete, deleteByPrefix and clear in any  *)
(* order on a cache of a small maxSize.  blockCache is the cache; recency  *)
(* records, beside it, in which order the keys were last used and written. *)

\* maxSize of the cache of this specification (World passes 15000)
LRUMaxSize == 2

LRUKeySet == {<<"a">>, <<"a", "b">>, <<"b">>, <<"c">>}

LRUPrefixes == {<<"a">>, <<"c">>}

LRUValues == {AIR, STONE}

\* key becomes the most recent of the list
touch(order, key) == Append(SelectSeq(order, LAMBDA k : k # key), key)

InitLRU ==
    /\ terrain = [signals |-> [c \in ProbeColumns |-> PlainsSignals],
                  noise |-> QuietNoise]
    /\ chunks = EmptyMap
    /\ blockCache = <<>>
    /\ scene = {}
    /\ chunksLoaded = 0
    /\ chunksRendered = 0
    /\ last = NoCall
    /\ streak = [chunk |-> <<>>, n |-> 0]
    /\ columnCache = EmptyMap
    /\ recency = NoRecency
    /\ mining = NoMining
    /\ inventory = NoInventory

CacheGet(key) ==
    \E r \in {LRUGet(blockCache, key)} :
       /\ blockCache' = r.cache
       /\ recency' = IF r.hit
                     THEN [recency EXCEPT !.used = touch(recency.used, key)]
                     ELSE recency
       /\ last' = [NoCall EXCEPT !.op = "LRU.get", !.args = <<key>>,
                                 !.ret = IF r.hit THEN r.value ELSE "undefined",
                                 !.cached = r.hit]
       /\ UNCHANGED <<terrain, chunks, scene, chunksLoaded, chunksRendered,
                      streak, columnCache, mining, inventory>>

CacheSet(key, value) ==
    /\ blockCache' = LRUSet(blockCache, LRUMaxSize, key, value)
    /\ recency' = [used |-> touch(recency.used, key),
                   written |-> touch(recency.written, key)]
    /\ last' = [NoCall EXCEPT
                  !.op = "LRU.set", !.args = <<key, value>>,
                  !.dropped = LRUKeys(blockCache) \ LRUKeys(blockCache')]
    /\ UNCHANGED <<terrain, chunks, scene, chunksLoaded, chunksRendered,
                   streak, columnCache, mining, inventory>>

CacheDelete(key) ==
    /\ blockCache' = LRUDelete(blockCache, key)
    /\ last' = [NoCall EXCEPT
                  !.op = "LRU.delete", !.args = <<key>>,
                  !.ret = LRUHas(blockCache, key),
                  !.dropped = LRUKeys(blockCache) \ LRUKeys(blockCache')]
    /\ UNCHANGED <<terrain, chunks, scene, chunksLoaded, chunksRendered,
                   streak, columnCache, recency, mining, inventory>>

CacheDeleteByPrefix(prefix) ==
    /\ blockCache' = LRUDeleteByPrefix(blockCache, prefix)
    /\ last' = [NoCall EXCEPT
                  !.op = "LRU.deleteByPrefix", !.args = <<prefix>>,
                  !.ret = Len(blockCache) - Len(blockCache'),
                  !.dropped = LRUKeys(blockCache) \ LRUKeys(blockCache')]
    /\ UNCHANGED <<terrain, chunks, scene, chunksLoaded, chunksRendered,
                   streak, columnCache, recency, mining, inventory>>

CacheClear ==
    /\ blockCache' = <<>>
    /\ last' = [NoCall EXCEPT !.op = "LRU.clear",
                              !.dropped = LRUKeys(blockCache)]
    /\ UNCHANGED <<terrain, chunks, scene, chunksLoaded, chunksRendered,
                   streak, columnCache, recency, mining, inventory>>

NextLRU ==
    \/ \E key \in LRUKeySet : CacheGet(key)
    \/ \E key \in LRUKeySet, value \in LRUValues : CacheSet(key, value)
    \/ \E key \in LRUKeySet : CacheDelete(key)
    \/ \E prefix \in LRUPrefixes : CacheDeleteByPrefix(prefix)
    \/ CacheClear

SpecLRU == InitLRU /\ [][NextLRU]_vars

\* the position of key in the list order
position(order, key) == CHOOSE i \in 1..Len(order) : order[i] = key

\* the entry of the cache whose last get hit or set is the oldest
leastRecentlyUsed ==
    CHOOSE k \in LRUKeys(blockCache) :
        \A j \in LRUKeys(blockCache) :
            position(recency.used, k) <= position(recency.used, j)

\* C18: the cache never holds more than maxSize entries; a set of a new key
\* into a full cache evicts one entry, the one whose last get hit or set is
\* the oldest; a set of a key already in the cache, or into a cache that is
\* not full, evicts nothing; and the key set is in the cache afterwards.
LRUBounded ==
    [][/\ Len(blockCache') <= LRUMaxSize
       /\ last'.op = "LRU.set" =>
             /\ LRUHas(blockCache', last'.args[1])
             /\ LRUValue(blockCache', last'.args[1]) = last'.args[2]
             /\ IF /\ ~LRUHas(blockCache, last'.args[1])
                   /\ Len(blockCache) = LRUMaxSize
                THEN LRUKeys(blockCache) \ LRUKeys(blockCache')
                        = {leastRecentlyUsed}
                ELSE LRUKeys(blockCache) \subseteq LRUKeys(blockCache')]_vars

\* a set that evicted a key written after a key that is still in the cache,
\* because that older key was read since
LRUBoundedRefreshed ==
    /\ last.op = "LRU.set"
    /\ \E d \in last.dropped, k \in LRUKeys(blockCache) :
          /\ k # last.args[1]
          /\ position(recency.written, k) < position(recency.written, d)
          /\ position(recency.used, k) > position(recency.used, d)

-----------------------------------------------------------------------------
(* Properties of the voxel classifier (SpecTerrain) *)

\* the column of the last call of the generator
lastColumn == calculateColumnInfo(terrain.signals[<<last.args[1], last.args[3]>>])

OreBlocks == {COAL_ORE, IRON_ORE, GOLD_ORE, DIAMOND_ORE}

StoneVariants == {GRANITE, DIORITE, ANDESITE}

\* the bedrock rule applies at height y
bedrockRule(n, y) == y <= 0 \/ (y <= 3 /\ Abs(n.bedrock) < 30 + y * 10)

\* the cave rule applies at height y of a column of terrain height h
caveRule(n, y, h) == y <= h /\ y > 5 /\ isCave(n, y, h)

\* what the rules after the bedrock rule give, in their order, for height y
\* of column col
afterBedrock(n, y, col) ==
    IF caveRule(n, y, col.terrainHeight)
    THEN (IF y <= waterLevel - 10 /\ y < 20 THEN LAVA ELSE AIR)
    ELSE IF y > col.terrainHeight
    THEN (IF y <= waterLevel THEN WATER ELSE AIR)
    ELSE IF y >= col.terrainHeight - 4
    THEN getSurfaceBlock(n, y, col.terrainHeight, col.biome, col.isOcean,
                         col.isBeach, col.isMountain)
    ELSE IF y < 10 THEN DEEPSLATE
    ELSE getUndergroundBlock(n, y)

\* C19: the classifier returns the result of the first applicable rule in
\* the order bedrock, cave, above terrain, surface, deepslate, underground:
\* y <= 0 is bedrock; a voxel above the terrain height that the bedrock rule
\* does not claim is water when y <= waterLevel and air otherwise; and no ore,
\* stone variant or deepslate is returned within 4 blocks of the surface.
RuleOrder ==
    last.op = "generator.getBlockAt" =>
        \A y \in {last.args[2]}, col \in {lastColumn} :
            /\ last.ret = IF bedrockRule(terrain.noise, y) THEN BEDROCK
                          ELSE afterBedrock(terrain.noise, y, col)
            /\ y <= 0 => last.ret = BEDROCK
            /\ (y > col.terrainHeight /\ ~bedrockRule(terrain.noise, y)) =>
                  last.ret = IF y <= waterLevel THEN WATER ELSE AIR
            /\ (y >= col.terrainHeight - 4 /\ y <= col.terrainHeight + 4) =>
                  last.ret \notin OreBlocks \cup StoneVariants \cup {DEEPSLATE}

\* a voxel above the terrain height of a column worn down to height 1 or 2,
\* in reach of the bedrock pattern, which the noise does not trigger there
RuleOrderAboveLowTerrain ==
    /\ last.op = "generator.getBlockAt"
    /\ last.args[2] > lastColumn.terrainHeight
    /\ last.args[2] <= 3
    /\ ~bedrockRule(terrain.noise, last.args[2])
    /\ last.ret = WATER

\* C19 as stated: every voxel above the terrain height is water when
\* y <= waterLevel and air otherwise.
RuleOrderAboveTerrain ==
    last.op = "generator.getBlockAt" =>
        \A y \in {last.args[2]}, col \in {lastColumn} :
            /\ y <= 0 => last.ret = BEDROCK
            /\ y > col.terrainHeight =>
                  last.ret = IF y <= waterLevel THEN WATER ELSE AIR
            /\ (y >= col.terrainHeight - 4 /\ y <= col.terrainHeight + 4) =>
                  last.ret \notin OreBlocks \cup StoneVariants \cup {DEEPSLATE}

\* C20: the generator returns neither AIR nor LAVA for the five voxels at
\* and below the terrain height of a column (terrainHeight - 5 < y <=
\* terrainHeight), whatever the cave noise; the block at y = getHeight is
\* not AIR.
SurfaceNotCarved ==
    last.op = "generator.getBlockAt" =>
        \A y \in {last.args[2]},
           h \in {getHeight(terrain, last.args[1], last.args[3])} :
            /\ (h - 5 < y /\ y <= h) => last.ret \notin {AIR, LAVA}
            /\ y = h => last.ret # AIR

\* the fifth voxel from the top of a column whose cave noise carves the
\* voxel just below it
SurfaceNotCarvedEdge ==
    /\ last.op = "generator.getBlockAt"
    /\ last.args[2] = lastColumn.terrainHeight - 4
    /\ last.args[2] > 5
    /\ last.ret \notin {AIR, LAVA}
    /\ generatorGetBlockAt(terrain, last.args[1], last.args[2] - 1,
                           last.args[3]) \in {AIR, LAVA}

-----------------------------------------------------------------------------
(* Chunk.generate with the column memo of the generator: chunks (50,50)    *)
(* and (51,50) are created, generated and dropped in any order, over       *)
(* terrains whose columns have height 70 and one of six biomes.            *)

TaigaSignals == [PlainsSignals EXCEPT !.temperature = -40, !.humidity = 40]

SnowyTaigaSignals == [PlainsSignals EXCEPT !.temperature = -60, !.humidity = 30]

JungleSignals == [PlainsSignals EXCEPT !.humidity = 60]

BiomeSignals ==
    {PlainsSignals, ForestSignals, DesertSignals, TaigaSignals,
     SnowyTaigaSignals, JungleSignals}

\* column (813,813) passes the tree test of every biome that has one;
\* (800,812) fails it and passes the vegetation test; (816,801) fails both
TreeColumn == <<813, 813>>

VegetationColumn == <<800, 812>>

BareColumn == <<816, 801>>

GenerateChunks == {<<50, 50>>, <<51, 50>>}

\* the followed columns of chunk (cx, cz), in world coordinates, in the
\* order Chunk.generate visits them
chunkColumns(cx, cz) ==
    LET colSet == {c \in ProbeColumns : /\ FloorDiv(c[1], CHUNK_SIZE) = cx
                                         /\ FloorDiv(c[2], CHUNK_SIZE) = cz}
    IN SortedSeq(colSet, [c \in colSet |-> c[1] * CHUNK_SIZE + c[2]])

\* the memo after calculateColumnInfo was called for the columns cols
RECURSIVE memoColumns(_, _, _)
memoColumns(t, cache, cols) ==
    IF cols = <<>> THEN cache
    ELSE memoColumns(t,
             memoColumnInfo(t, cache, Head(cols)[1], Head(cols)[2]).cache,
             Tail(cols))

\* Chunk.generate and what it leaves in the generator's memo:
\* [chunk, columnCache]
generateWithMemo(t, cache, chunk, rnd) ==
    [chunk |-> generate(t, chunk, rnd),
     columnCache |-> IF chunk.isGenerated THEN cache
                     ELSE memoColumns(t, cache, chunkColumns(chunk.x, chunk.z))]

InitGenerate ==
    /\ terrain \in
          {[signals |-> [c \in ProbeColumns |->
                            IF c = TreeColumn THEN treeSig ELSE vegSig],
            noise |-> n] :
              treeSig \in BiomeSignals, vegSig \in BiomeSignals,
              n \in {QuietNoise, [QuietNoise EXCEPT !.scale6 = 50]}}
    /\ chunks = EmptyMap
    /\ blockCache = <<>>
    /\ scene = {}
    /\ chunksLoaded = 0
    /\ chunksRendered = 0
    /\ last = NoCall
    /\ streak = [chunk |-> <<>>, n |-> 0]
    /\ columnCache = EmptyMap
    /\ recency = NoRecency
    /\ mining = NoMining
    /\ inventory = NoInventory

\* new Chunk (when the map has none for the key) and Chunk.generate
ChunkGenerate(c, rnd) ==
    \E key \in {createChunkKey(c[1], c[2])} :
    \E r \in {generateWithMemo(terrain, columnCache,
                  IF key \in DOMAIN chunks THEN chunks[key]
                  ELSE NewChunk(c[1], c[2]), rnd)} :
       /\ chunks' = [k \in DOMAIN chunks \cup {key} |->
                        IF k = key THEN r.chunk ELSE chunks[k]]
       /\ columnCache' = r.columnCache
       /\ last' = [NoCall EXCEPT !.op = "Chunk.generate", !.args = c]
       /\ UNCHANGED <<terrain, blockCache, scene, chunksLoaded,
                      chunksRendered, streak, recency, mining, inventory>>

\* the chunk leaves the map, as when World.update unloads it
ChunkDrop(key) ==
    /\ chunks' = Restrict(chunks, DOMAIN chunks \ {key})
    /\ last' = [NoCall EXCEPT !.op = "unload", !.args = <<key>>]
    /\ UNCHANGED <<terrain, blockCache, scene, chunksLoaded, chunksRendered,
                   streak, columnCache, recency, mining, inventory>>

NextGenerate ==
    \/ \E c \in GenerateChunks, rnd \in RandomDraws : ChunkGenerate(c, rnd)
    \/ \E key \in DOMAIN chunks : ChunkDrop(key)

SpecGenerate == InitGenerate /\ [][NextGenerate]_vars

\* C21: when Chunk.generate returns, the column memo of the generator is
\* empty.
ColumnCacheEmptied ==
    last.op = "Chunk.generate" => columnCache = EmptyMap

\* the surface voxel of column c in chunk ch, and the voxel above it
surfaceOf(ch, c) ==
    chunkGetBlock(ch, c[1] - ch.x * CHUNK_SIZE, getHeight(terrain, c[1], c[2]),
                  c[2] - ch.z * CHUNK_SIZE)

aboveSurfaceOf(ch, c) ==
    chunkGetBlock(ch, c[1] - ch.x * CHUNK_SIZE,
                  getHeight(terrain, c[1], c[2]) + 1, c[2] - ch.z * CHUNK_SIZE)

\* the followed columns of the generated chunks, each with its chunk
generatedColumns ==
    {<<k, c>> \in (DOMAIN chunks) \X ProbeColumns :
        /\ chunks[k].isGenerated
        /\ createChunkKey(FloorDiv(c[1], CHUNK_SIZE),
                          FloorDiv(c[2], CHUNK_SIZE)) = k}

\* C22: in a generated chunk a column carries a vegetation block only where
\* its vegetation density test passes, its tree test fails and its surface
\* block is GRASS; it carries a tree trunk exactly where its tree test passes
\* (and the surface is at 35 or above), whatever the surface block is; a
\* column that passes neither test carries neither.
DecorationRule ==
    \A p \in generatedColumns :
        LET ch == chunks[p[1]]
            c == p[2]
            tree == shouldPlaceTree(terrain, c[1], c[2])
            veg == shouldPlaceVegetation(terrain, c[1], c[2])
        IN /\ aboveSurfaceOf(ch, c) \in VEGETATION_SET =>
                (veg /\ ~tree /\ surfaceOf(ch, c) = GRASS)
           /\ surfaceOf(ch, c) # GRASS =>
                aboveSurfaceOf(ch, c) \notin VEGETATION_SET
           /\ aboveSurfaceOf(ch, c) = WOOD <=>
                (tree /\ getHeight(terrain, c[1], c[2]) >= 35)
           /\ (~tree /\ ~veg) => aboveSurfaceOf(ch, c) = AIR

\* chunk (50,50) generated with a flower or grass on the GRASS of one column
\* and a tree on the PODZOL of another
DecorationRuleTaigaTree ==
    \E k \in DOMAIN chunks :
        /\ <<k, TreeColumn>> \in generatedColumns
        /\ surfaceOf(chunks[k], TreeColumn) = PODZOL
        /\ aboveSurfaceOf(chunks[k], TreeColumn) = WOOD
        /\ surfaceOf(chunks[k], VegetationColumn) = GRASS
        /\ aboveSurfaceOf(chunks[k], VegetationColumn) \in VEGETATION_SET

\* C22 as stated: a tree trunk or a vegetation block only on a GRASS
\* surface.
DecorationOnGrassOnly ==
    \A p \in generatedColumns :
        aboveSurfaceOf(chunks[p[1]], p[2]) \in {WOOD} \cup VEGETATION_SET
            => surfaceOf(chunks[p[1]], p[2]) = GRASS

\* the entries of an LRU cache as a set of <<key, value>> pairs
LRUEntries(cache) == {<<cache[i].key, cache[i].value>> : i \in DOMAIN cache}

\* C23: a World.getBlockAt call leaves the chunk map, every voxel, every
\* generated and built flag and the scene as they were; outside the world's
\* height it leaves the block cache alone; on a cache hit it returns the
\* cached value and adds or drops no entry; on a miss it returns the voxel of
\* the owning chunk when that chunk is live and generated and the generator's
\* value otherwise, and the cache afterwards holds exactly that value under
\* the coordinate's key, every other entry being one it held before.
ReadOnlyRead ==
    [][last'.op = "getBlockAt" =>
         /\ chunks' = chunks
         /\ scene' = scene
         /\ chunksLoaded' = chunksLoaded
         /\ chunksRendered' = chunksRendered
         /\ \A a \in {last'.args} :
              LET v == <<Floor(a[1]), Floor(a[2]), Floor(a[3])>>
                  key == voxelCacheKey(v)
              IN IF a[2] < 0
                 THEN last'.ret = BEDROCK /\ blockCache' = blockCache
                 ELSE IF a[2] >= 2 * CHUNK_HEIGHT
                 THEN last'.ret = AIR /\ blockCache' = blockCache
                 ELSE IF LRUHas(blockCache, key)
                 THEN /\ last'.ret = LRUValue(blockCache, key)
                      /\ LRUEntries(blockCache') = LRUEntries(blockCache)
                 ELSE /\ last'.ret = rederive(v)
                      /\ <<key, rederive(v)>> \in LRUEntries(blockCache')
                      /\ LRUEntries(blockCache') \ {<<key, rederive(v)>>}
                             \subseteq LRUEntries(blockCache)
                      /\ Len(blockCache') <= Len(blockCache) + 1]_vars

\* a miss answered from a live, generated chunk with a value the generator
\* would not give, now in the cache
ReadOnlyReadFromChunk ==
    /\ last.op = "getBlockAt"
    /\ lastInHeight
    /\ ~last.cached
    /\ voxelChunkKey(lastVoxel) \in DOMAIN chunks
    /\ chunks[voxelChunkKey(lastVoxel)].isGenerated
    /\ last.ret # generatorGetBlockAt(terrain, lastVoxel[1], lastVoxel[2],
                                      lastVoxel[3])
    /\ <<voxelCacheKey(lastVoxel), last.ret>> \in LRUEntries(blockCache)

\* C25: after every update, setBlock and dispose the mesh objects registered
\* in the scene are exactly the meshes and water meshes of the chunks in the
\* chunk map; no mesh object belongs to two chunks or appears twice in one
\* chunk, and a chunk that is not built holds none.
SceneExact ==
    /\ scene = UNION {chunkMeshIds(chunks[k]) : k \in DOMAIN chunks}
    /\ \A k1, k2 \in DOMAIN chunks :
          k1 # k2 => chunkMeshIds(chunks[k1]) \cap chunkMeshIds(chunks[k2]) = {}
    /\ \A k \in DOMAIN chunks :
          /\ \A i, j \in 1..Len(chunks[k].meshes) :
                chunks[k].meshes[i].id = chunks[k].meshes[j].id => i = j
          /\ \A i \in 1..Len(chunks[k].meshes) :
                chunks[k].meshes[i].id # chunks[k].waterMesh
          /\ ~chunks[k].isBuilt => chunkMeshIds(chunks[k]) = {}

\* an edit has just rebuilt a built chunk among several live ones, and the
\* scene holds its new batches
SceneExactAfterEdit ==
    /\ last.op = "setBlock"
    /\ last.ret = TRUE
    /\ Cardinality({k \in DOMAIN chunks : chunks[k].isBuilt}) >= 2
    /\ chunkMeshIds(chunks[voxelChunkKey(lastVoxel)]) # {}
    /\ chunkMeshIds(chunks[voxelChunkKey(lastVoxel)]) \subseteq scene

-----------------------------------------------------------------------------
(* The World around the border between chunks (49,50) and (50,50): the     *)
(* observer stands in chunk (50,50) or (51,50), and the edits address the  *)
(* two voxels that face each other across the border, (799,71,812) and     *)
(* (800,71,812).                                                            *)

\* observer positions in half blocks: block (800,812) and block (820,812)
BoundaryObservers == {<<1600, 1624>>, <<1640, 1624>>}

BoundaryWrites == {<<1598, 142, 1624>>, <<1600, 142, 1624>>}

BoundaryTypes == {AIR, STONE}

\* no column around the border passes the tree test, so the random draws
\* of placeTree are never taken
NoTreeDraw == [treeHeight |-> 4, skip |-> {}]

InitBoundary ==
    /\ terrain \in
          {[signals |-> [c \in ProbeColumns |-> sig], noise |-> QuietNoise] :
              sig \in {PlainsSignals, DesertSignals}}
    /\ chunks = EmptyMap
    /\ blockCache = <<>>
    /\ scene = {}
    /\ chunksLoaded = 0
    /\ chunksRendered = 0
    /\ last = NoCall
    /\ streak = [chunk |-> <<>>, n |-> 0]
    /\ columnCache = EmptyMap
    /\ recency = NoRecency
    /\ mining = NoMining
    /\ inventory = NoInventory

NextBoundary ==
    \/ \E p \in BoundaryObservers : Update(p[1], p[2], NoTreeDraw)
    \/ \E p \in BoundaryWrites, b \in BoundaryTypes :
          SetBlock(p[1], p[2], p[3], b)

SpecBoundary == InitBoundary /\ [][NextBoundary]_vars

\* the face classes of buildMesh by direction
faceTypeOf(d) ==
    IF d = <<0, 1, 0>> THEN "top" ELSE IF d = <<0, -1, 0>> THEN "bottom"
    ELSE "side"

\* in the chunks chs every followed voxel of a built chunk that is neither
\* air nor vegetation has each of its faces toward a position outside the
\* grid in the batch of its type (the water batch for water)
outwardFaces(chs) ==
    \A k \in DOMAIN chs :
        chs[k].isBuilt =>
            \A q \in ProbedLocal(chs[k].x, chs[k].z), d \in AllDirs :
                LET b == chunkGetBlock(chs[k], q[1], q[2], q[3])
                IN (/\ b # AIR
                    /\ ~isVegetationBlock(b)
                    /\ ~inChunkRange(q[1] + d[1], q[2] + d[2], q[3] + d[3]))
                   => IF b = WATER THEN chs[k].waterMesh # NoMesh
                      ELSE \E i \in 1..Len(chs[k].meshes) :
                              /\ chs[k].meshes[i].block = b
                              /\ chs[k].meshes[i].faceType = faceTypeOf(d)
                              /\ <<q, d>> \in chs[k].meshes[i].faces

\* C28: buildMesh emits the outward face of every non-air, non-vegetation
\* voxel on the chunk's boundary whatever the adjacent chunk holds, and a
\* setBlock call leaves every chunk but the owning one, its batches
\* included, as it was.
BoundaryFaces ==
    [][/\ outwardFaces(chunks')
       /\ last'.op = "setBlock" =>
             \A a \in {last'.args} :
                \A k \in DOMAIN chunks :
                    k # voxelChunkKey(<<Floor(a[1]), Floor(a[2]), Floor(a[3])>>)
                        => k \in DOMAIN chunks' /\ chunks'[k] = chunks[k]]_vars

\* an edit put STONE at (799,71,812) while chunk (50,50) is built with
\* STONE at (800,71,812): the two blocks touch across the border, and the
\* face of the second toward the first is in its batch
BoundaryFacesTouching ==
    /\ last.op = "setBlock"
    /\ last.ret = TRUE
    /\ last.args = <<1598, 142, 1624, STONE>>
    /\ createChunkKey(50, 50) \in DOMAIN chunks
    /\ chunks[createChunkKey(50, 50)].isBuilt
    /\ chunkGetBlock(chunks[createChunkKey(50, 50)], 0, 71, 12) = STONE
    /\ \E i \in 1..Len(chunks[createChunkKey(50, 50)].meshes) :
          /\ chunks[createChunkKey(50, 50)].meshes[i].block = STONE
          /\ <<<<0, 71, 12>>, <<-1, 0, 0>>>>
                 \in chunks[createChunkKey(50, 50)].meshes[i].faces

\* C27: the array generateChunkData returns holds, at the index Chunk uses
\* for local voxel (x, y, z), the block the generator gives for that voxel.
ChunkDataLayout ==
    last.op = "generateChunkData" =>
        \A q \in DataVoxels :
            blockIndex(q[1], q[2], q[3]) \in DOMAIN last.ret =>
                last.ret[blockIndex(q[1], q[2], q[3])]
                    = generatorGetBlockAt(terrain,
                          last.args[2] * CHUNK_SIZE + q[1], q[2],
                          last.args[3] * CHUNK_SIZE + q[3])

-----------------------------------------------------------------------------
(* Noise setup: the create-world form parses the seed text, and the seed   *)
(* reaches NoiseGenerator, which builds five SimplexNoise permutation      *)
(* tables.  terrain holds the NoiseGenerator built last.                   *)

\* the values JavaScript gives a missing array entry and a failed number
Undefined == 0 - 1
NaN == 0 - 2

TableSize == 256

\* (s * 16807) % 2147483647 with the sign of the dividend, computed without
\* leaving 32 bits (16807 * 127773 + 2836 = 2147483647); |s| < 2147483647
lcgStep(s) ==
    LET pos(u) ==
            LET t == 16807 * (u % 127773) - 2836 * (u \div 127773)
            IN IF t < 0 THEN t + 2147483647 ELSE t
    IN IF s >= 0 THEN pos(s) ELSE 0 - pos(0 - s)

\* one pass of the shuffle loop of the SimplexNoise constructor at index i;
\* st is [p, s], p the array with the properties a negative index creates
shuffleStep(st, i) ==
    LET swap(s2, j) == [p |-> [st.p EXCEPT ![i] = st.p[j], ![j] = st.p[i]],
                        s |-> s2]
        draw(s2) == swap(s2, Rem(s2, i + 1))
    IN draw(lcgStep(st.s))

\* count passes of the loop from index i downward; the first half of the
\* passes is computed (its seed is looked at) before the second half starts
RECURSIVE shuffle(_, _, _)
shuffle(st, i, count) ==
    IF count = 0 THEN st
    ELSE IF count = 1 THEN shuffleStep(st, i)
    ELSE LET rest(mid) ==
                 IF mid.s = mid.s
                 THEN shuffle(mid, i - (count \div 2), count - (count \div 2))
                 ELSE mid
         IN rest(shuffle(st, i, count \div 2))

\* new SimplexNoise(seed): perm and permMod12
SimplexNoise(seed) ==
    LET tables(p) ==
            [perm |-> [i \in 0..(2 * TableSize - 1) |-> p[i % TableSize]],
             permMod12 |-> [i \in 0..(2 * TableSize - 1) |->
                              IF p[i % TableSize] = Undefined THEN NaN
                              ELSE p[i % TableSize] % 12]]
    IN tables(shuffle([p |-> [i \in (1 - TableSize)..(TableSize - 1) |->
                                IF i >= 0 THEN i ELSE Undefined],
                       s |-> seed],
                      TableSize - 1, TableSize - 1).p)

NoiseNames == {"noise2D", "noise3D", "caveNoise", "biomeNoise", "erosionNoise"}

\* new NoiseGenerator(seed) for a numeric seed
NoiseGenerator(seed) ==
    [seed |-> seed,
     noise2D |-> SimplexNoise(seed),
     noise3D |-> SimplexNoise(seed + 1000),
     caveNoise |-> SimplexNoise(seed + 2000),
     biomeNoise |-> SimplexNoise(seed + 3000),
     erosionNoise |-> SimplexNoise(seed + 4000)]

\* the digit a character stands for
digitValue(c) == CHOOSE d \in 0..9 : Digit(d) = c

charCode(c) == IF c = "-" THEN 45 ELSE 48 + digitValue(c)

isDigit(c) == c \in {"0", "1", "2", "3", "4", "5", "6", "7", "8", "9"}

\* the value of the leading digits of a text; NaN when there is none
RECURSIVE leadingDigits(_, _, _)
leadingDigits(text, acc, seen) ==
    IF text = <<>> \/ ~isDigit(Head(text))
    THEN IF seen THEN acc ELSE NaN
    ELSE leadingDigits(Tail(text), 10 * acc + digitValue(Head(text)), TRUE)

\* parseInt of a trimmed text of digits and minus signs; NaN when no number
\* starts the text
parseInt(text) ==
    IF text # <<>> /\ Head(text) = "-"
    THEN IF leadingDigits(Tail(text), 0, FALSE) = NaN THEN NaN
         ELSE 0 - leadingDigits(Tail(text), 0, FALSE)
    ELSE leadingDigits(text, 0, FALSE)

\* MainMenu.hashString; the texts here are too short to leave 32 bits
RECURSIVE hashFrom(_, _)
hashFrom(hash, str) ==
    IF str = <<>> THEN hash
    ELSE hashFrom(((hash * 32) - hash) + charCode(Head(str)), Tail(str))

hashString(str) == Abs(hashFrom(0, str))

\* the seed the create-world form makes of a non-empty seed text
formSeed(seedValue) ==
    IF parseInt(seedValue) = NaN \/ parseInt(seedValue) = 0
    THEN hashString(seedValue)
    ELSE parseInt(seedValue)

SeedChars == {"-", "0", "1", "7", "9"}

MaxSeedLen == 3

SeedTexts == UNION {[1..n -> SeedChars] : n \in 1..MaxSeedLen}

InitNoise ==
    /\ terrain = [seed |-> NaN]
    /\ chunks = EmptyMap
    /\ blockCache = <<>>
    /\ scene = {}
    /\ chunksLoaded = 0
    /\ chunksRendered = 0
    /\ last = NoCall
    /\ streak = [chunk |-> <<>>, n |-> 0]
    /\ columnCache = EmptyMap
    /\ recency = NoRecency
    /\ mining = NoMining
    /\ inventory = NoInventory

\* the create button with a seed text: the seed is parsed and the world's
\* TerrainGenerator builds its NoiseGenerator from it
CreateWorld(seedValue) ==
    \E r \in {NoiseGenerator(formSeed(seedValue))} :
       /\ terrain' = r
       /\ last' = [NoCall EXCEPT !.op = "createWorld", !.args = seedValue,
                                 !.ret = r.seed]
       /\ UNCHANGED <<chunks, blockCache, scene, chunksLoaded, chunksRendered,
                      streak, columnCache, recency, mining, inventory>>

NextNoise == \E seedValue \in SeedTexts : CreateWorld(seedValue)

SpecNoise == InitNoise /\ [][NextNoise]_vars

\* C24: when world creation has built the noise generator, each of its five
\* permutation tables holds every value of 0..255 once in its first 256
\* entries and the same again in the next 256 (the code has no path on
\* which construction fails).
PermutationTables ==
    last.op = "createWorld" =>
        \A n \in NoiseNames :
            /\ {terrain[n].perm[i] : i \in 0..(TableSize - 1)}
                   = 0..(TableSize - 1)
            /\ \A i \in 0..(TableSize - 1) :
                  terrain[n].perm[i + TableSize] = terrain[n].perm[i]

-----------------------------------------------------------------------------
(* Inventory and CraftingSystem.  inventory holds the hotbar and the main  *)
(* inventory as sequences of slots [itemId, quantity]; slot i of the code  *)
(* is element i + 1.                                                       *)

\* itemId: null
NoItem == 0 - 1

STICK == 204
WOODEN_PICKAXE == 100
WOODEN_SWORD == 110

ToolItems == {100, 101, 102, 103, 110, 111, 112, 113}

MaterialItems == 200..204

BlockItems ==
    {GRASS, DIRT, STONE, SAND, WOOD, LEAVES, SNOW, GRAVEL, CLAY, COBBLESTONE,
     MOSS_STONE, RED_SAND, TERRACOTTA, GRANITE, DIORITE, ANDESITE, COAL_ORE,
     IRON_ORE, GOLD_ORE, DIAMOND_ORE, SNOW_BLOCK, PODZOL, COARSE_DIRT}

\* getItem(id) is defined
knownItem(id) == id \in BlockItems \cup ToolItems \cup MaterialItems

stackSizeOf(id) == IF id \in ToolItems THEN 1 ELSE 64

EmptySlot == [itemId |-> NoItem, quantity |-> 0]

HotbarSize == 2
MainSize == 2

allSlots(inv) == inv.hotbar \o inv.mainInventory

\* Inventory.countItem
countItem(inv, itemId) ==
    LET RECURSIVE sum(_)
        sum(slots) ==
            IF slots = <<>> THEN 0
            ELSE (IF Head(slots).itemId = itemId THEN Head(slots).quantity
                  ELSE 0) + sum(Tail(slots))
    IN sum(allSlots(inv))

\* a faulty variant: space is not checked
hasSpaceForAlways(inv, itemId, quantity) == knownItem(itemId)

\* Inventory.hasSpaceFor: the running sum of the space of the slots reaches
\* the quantity at some slot, or the sum over all slots does
hasSpaceFor(inv, itemId, quantity) ==
    LET contribution(slot) ==
            IF slot.itemId = NoItem THEN stackSizeOf(itemId)
            ELSE IF slot.itemId = itemId
                 THEN stackSizeOf(itemId) - slot.quantity
                 ELSE 0
        RECURSIVE reaches(_, _)
        reaches(slots, space) ==
            IF slots = <<>> THEN space >= quantity
            ELSE \/ space + contribution(Head(slots)) >= quantity
                 \/ reaches(Tail(slots), space + contribution(Head(slots)))
    IN knownItem(itemId) /\ reaches(allSlots(inv), 0)

\* one stacking loop of addItem over slots, from slot i on:
\* [slots, remaining]
RECURSIVE stackLoop(_, _, _, _)
stackLoop(slots, itemId, remaining, i) ==
    IF i > Len(slots) \/ remaining <= 0
    THEN [slots |-> slots, remaining |-> remaining]
    ELSE IF slots[i].itemId = itemId
            /\ slots[i].quantity < stackSizeOf(itemId)
    THEN LET canAdd == Min(remaining, stackSizeOf(itemId) - slots[i].quantity)
         IN stackLoop([slots EXCEPT ![i].quantity = @ + canAdd], itemId,
                      remaining - canAdd, i + 1)
    ELSE stackLoop(slots, itemId, remaining, i + 1)

\* one empty-slot loop of addItem over slots, from slot i on
RECURSIVE emptyLoop(_, _, _, _)
emptyLoop(slots, itemId, remaining, i) ==
    IF i > Len(slots) \/ remaining <= 0
    THEN [slots |-> slots, remaining |-> remaining]
    ELSE IF slots[i].itemId = NoItem
    THEN LET canAdd == Min(remaining, stackSizeOf(itemId))
         IN emptyLoop([slots EXCEPT ![i] = [itemId |-> itemId,
                                            quantity |-> canAdd]],
                      itemId, remaining - canAdd, i + 1)
    ELSE emptyLoop(slots, itemId, remaining, i + 1)

\* Inventory.addItem: [inventory, remaining]
addItem(inv, itemId, quantity) ==
    IF ~knownItem(itemId) THEN [inventory |-> inv, remaining |-> quantity]
    ELSE
    LET fourth(h1, m1, h2, m2) ==
            [inventory |-> [inv EXCEPT !.hotbar = h2.slots,
                                       !.mainInventory = m2.slots],
             remaining |-> m2.remaining]
        third(h1, m1, h2) ==
            fourth(h1, m1, h2, emptyLoop(m1.slots, itemId, h2.remaining, 1))
        second(h1, m1) ==
            third(h1, m1, emptyLoop(h1.slots, itemId, m1.remaining, 1))
        first(h1) ==
            second(h1, stackLoop(inv.mainInventory, itemId, h1.remaining, 1))
    IN first(stackLoop(inv.hotbar, itemId, quantity, 1))

\* Inventory.clearSlot; index counts from 0
clearSlot(inv, isHotbar, index) ==
    IF isHotbar
    THEN IF index >= 0 /\ index < Len(inv.hotbar)
         THEN [inv EXCEPT !.hotbar[index + 1] = EmptySlot] ELSE inv
    ELSE IF index >= 0 /\ index < Len(inv.mainInventory)
         THEN [inv EXCEPT !.mainInventory[index + 1] = EmptySlot] ELSE inv

\* Inventory.setHotbarSlot
setHotbarSlot(inv, index, itemId, quantity) ==
    IF index < 0 \/ index >= Len(inv.hotbar) \/ ~knownItem(itemId) THEN inv
    ELSE [inv EXCEPT !.hotbar[index + 1] =
              [itemId |-> itemId,
               quantity |-> Min(quantity, stackSizeOf(itemId))]]

\* Inventory.setMainSlot
setMainSlot(inv, index, itemId, quantity) ==
    IF index < 0 \/ index >= Len(inv.mainInventory) \/ ~knownItem(itemId)
    THEN inv
    ELSE [inv EXCEPT !.mainInventory[index + 1] =
              [itemId |-> itemId,
               quantity |-> Min(quantity, stackSizeOf(itemId))]]

\* one removal loop of CraftingSystem.removeItems over the copy snapshot of
\* the main inventory (isHotbar FALSE) or of the hotbar, from index i on:
\* [inventory, remaining]
RECURSIVE removeLoop(_, _, _, _, _, _)
removeLoop(inv, snapshot, isHotbar, itemId, remaining, i) ==
    IF i >= Len(snapshot) \/ remaining <= 0
    THEN [inventory |-> inv, remaining |-> remaining]
    ELSE IF snapshot[i + 1].itemId = itemId
    THEN LET remove == Min(remaining, snapshot[i + 1].quantity)
             newQty == snapshot[i + 1].quantity - remove
         IN removeLoop(IF newQty <= 0 THEN clearSlot(inv, isHotbar, i)
                       ELSE IF isHotbar
                            THEN setHotbarSlot(inv, i, itemId, newQty)
                            ELSE setMainSlot(inv, i, itemId, newQty),
                       snapshot, isHotbar, itemId, remaining - remove, i + 1)
    ELSE removeLoop(inv, snapshot, isHotbar, itemId, remaining, i + 1)

\* CraftingSystem.removeItems
removeItems(inv, itemId, quantity) ==
    LET fromHotbar(afterMain) ==
            removeLoop(afterMain.inventory, inv.hotbar, TRUE, itemId,
                       afterMain.remaining, 0).inventory
    IN fromHotbar(removeLoop(inv, inv.mainInventory, FALSE, itemId,
                             quantity, 0))

\* three of RECIPES: sticks, wooden pickaxe, wooden sword
Recipes ==
    {[id |-> "sticks", resultItemId |-> STICK, resultQuantity |-> 4,
      ingredients |-> <<[itemId |-> WOOD, quantity |-> 2]>>],
     [id |-> "wooden_pickaxe", resultItemId |-> WOODEN_PICKAXE,
      resultQuantity |-> 1,
      ingredients |-> <<[itemId |-> WOOD, quantity |-> 3],
                        [itemId |-> STICK, quantity |-> 2]>>],
     [id |-> "wooden_sword", resultItemId |-> WOODEN_SWORD,
      resultQuantity |-> 1,
      ingredients |-> <<[itemId |-> WOOD, quantity |-> 2],
                        [itemId |-> STICK, quantity |-> 1]>>]}

\* CraftingSystem.canCraft
canCraft(inv, recipe) ==
    \A k \in 1..Len(recipe.ingredients) :
        countItem(inv, recipe.ingredients[k].itemId)
            >= recipe.ingredients[k].quantity

RECURSIVE removeIngredients(_, _)
removeIngredients(inv, ingredients) ==
    IF ingredients = <<>> THEN inv
    ELSE removeIngredients(removeItems(inv, Head(ingredients).itemId,
                                       Head(ingredients).quantity),
                           Tail(ingredients))

\* CraftingSystem.craft: [ret, inventory]
craft(inv, recipe) ==
    IF ~canCraft(inv, recipe) THEN [ret |-> FALSE, inventory |-> inv]
    ELSE IF ~hasSpaceFor(inv, recipe.resultItemId, recipe.resultQuantity)
    THEN [ret |-> FALSE, inventory |-> inv]
    ELSE [ret |-> TRUE,
          inventory |-> addItem(removeIngredients(inv, recipe.ingredients),
                                recipe.resultItemId,
                                recipe.resultQuantity).inventory]

\* the slots a run starts from: empty, wood, sticks or a tool
SlotStates ==
    {EmptySlot}
      \cup {[itemId |-> WOOD, quantity |-> q] : q \in {1, 2, 3, 64}}
      \cup {[itemId |-> STICK, quantity |-> q] : q \in {1, 2, 61, 64}}
      \cup {[itemId |-> WOODEN_PICKAXE, quantity |-> 1],
            [itemId |-> WOODEN_SWORD, quantity |-> 1]}

InitCrafting ==
    /\ terrain = [seed |-> NaN]
    /\ chunks = EmptyMap
    /\ blockCache = <<>>
    /\ scene = {}
    /\ chunksLoaded = 0
    /\ chunksRendered = 0
    /\ last = [NoCall EXCEPT !.ret = FALSE]
    /\ streak = [chunk |-> <<>>, n |-> 0]
    /\ columnCache = EmptyMap
    /\ recency = NoRecency
    /\ mining = NoMining
    /\ inventory \in [hotbar : [1..HotbarSize -> SlotStates],
                      mainInventory : [1..MainSize -> SlotStates],
                      selectedSlot : {0}]

Craft(recipe) ==
    \E r \in {craft(inventory, recipe)} :
       /\ inventory' = r.inventory
       /\ last' = [NoCall EXCEPT !.op = "craft", !.args = recipe,
                                 !.ret = r.ret]
       /\ UNCHANGED <<terrain, chunks, blockCache, scene, chunksLoaded,
                      chunksRendered, streak, columnCache, recency, mining>>

NextCrafting == \E recipe \in Recipes : Craft(recipe)

SpecCrafting == InitCrafting /\ [][NextCrafting]_vars

\* the item ids a slot or a recipe of the run can hold
CraftItems == {WOOD, STICK, WOODEN_PICKAXE, WOODEN_SWORD}

\* the total of the recipe's ingredient entries for item id
ingredientQuantity(recipe, id) ==
    LET RECURSIVE sum(_)
        sum(list) ==
            IF list = <<>> THEN 0
            ELSE (IF Head(list).itemId = id THEN Head(list).quantity ELSE 0)
                     + sum(Tail(list))
    IN sum(recipe.ingredients)

\* the total quantity of item id in the slots of inv
totalOf(inv, id) ==
    LET RECURSIVE sum(_)
        sum(slots) ==
            IF slots = <<>> THEN 0
            ELSE (IF Head(slots).itemId = id THEN Head(slots).quantity ELSE 0)
                     + sum(Tail(slots))
    IN sum(inv.hotbar \o inv.mainInventory)

\* C30: a craft call either returns false and leaves every slot as it was,
\* or returns true with the total of each ingredient lower by its recipe
\* quantity, the total of the result item higher by resultQuantity, every
\* other total unchanged and no slot above its item's stack size.
CraftAllOrNothing ==
    [][last'.op = "craft" =>
         \A recipe \in {last'.args} :
            IF last'.ret = FALSE THEN inventory' = inventory
            ELSE /\ \A id \in CraftItems :
                       totalOf(inventory', id) =
                           totalOf(inventory, id)
                               - ingredientQuantity(recipe, id)
                               + (IF id = recipe.resultItemId
                                  THEN recipe.resultQuantity ELSE 0)
                 /\ \A i \in 1..(HotbarSize + MainSize) :
                       LET slot == (inventory'.hotbar
                                       \o inventory'.mainInventory)[i]
                       IN slot.itemId # NoItem =>
                             slot.quantity <= stackSizeOf(slot.itemId)]_vars

\* sticks were crafted into a stack of 61: the stack is full and the fourth
\* stick went to another slot
CraftAllOrNothingSplit ==
    /\ last.op = "craft"
    /\ last.ret = TRUE
    /\ last.args.id = "sticks"
    /\ \E i, j \in 1..(HotbarSize + MainSize) :
          /\ (inventory.hotbar \o inventory.mainInventory)[i]
                 = [itemId |-> STICK, quantity |-> 64]
          /\ (inventory.hotbar \o inventory.mainInventory)[j]
                 = [itemId |-> STICK, quantity |-> 1]

-----------------------------------------------------------------------------
(* MiningSystem: block breaking and placing.  Times are in milliseconds.   *)
(* The camera ray is given by the voxels its samples fall in, in order;    *)
(* the face of the block hit is given with it.  A target is a voxel        *)
(* <<x, y, z>>, the null target is <<>>.                                   *)

NoTarget == <<>>

\* BLOCK_BREAK_DATA
BLOCK_BREAK_DATA ==
    [b \in {GRASS, DIRT, STONE, COBBLESTONE, WOOD, LEAVES, SAND, GRAVEL,
            COAL_ORE, IRON_ORE, GOLD_ORE, DIAMOND_ORE, SNOW} |->
        CASE b = GRASS -> [baseTime |-> 600, toolRequired |-> FALSE,
                 drops |-> <<[itemId |-> DIRT, quantity |-> 1,
                              chance |-> 1000]>>]
          [] b = DIRT -> [baseTime |-> 500, toolRequired |-> FALSE,
                 drops |-> <<[itemId |-> DIRT, quantity |-> 1,
                              chance |-> 1000]>>]
          [] b = STONE -> [baseTime |-> 1500, toolRequired |-> TRUE,
                 drops |-> <<[itemId |-> COBBLESTONE, quantity |-> 1,
                              chance |-> 1000]>>]
          [] b = COBBLESTONE -> [baseTime |-> 1500, toolRequired |-> TRUE,
                 drops |-> <<[itemId |-> COBBLESTONE, quantity |-> 1,
                              chance |-> 1000]>>]
          [] b = WOOD -> [baseTime |-> 2000, toolRequired |-> FALSE,
                 drops |-> <<[itemId |-> WOOD, quantity |-> 1,
                              chance |-> 1000]>>]
          [] b = LEAVES -> [baseTime |-> 200, toolRequired |-> FALSE,
                 drops |-> <<[itemId |-> STICK, quantity |-> 1,
                              chance |-> 50]>>]
          [] b = SAND -> [baseTime |-> 500, toolRequired |-> FALSE,
                 drops |-> <<[itemId |-> SAND, quantity |-> 1,
                              chance |-> 1000]>>]
          [] b = GRAVEL -> [baseTime |-> 600, toolRequired |-> FALSE,
                 drops |-> <<[itemId |-> GRAVEL, quantity |-> 1,
                              chance |-> 1000]>>]
          [] b = COAL_ORE -> [baseTime |-> 3000, toolRequired |-> TRUE,
                 drops |-> <<[itemId |-> 200, quantity |-> 1,
                              chance |-> 1000]>>]
          [] b = IRON_ORE -> [baseTime |-> 3000, toolRequired |-> TRUE,
                 drops |-> <<[itemId |-> IRON_ORE, quantity |-> 1,
                              chance |-> 1000]>>]
          [] b = GOLD_ORE -> [baseTime |-> 3000, toolRequired |-> TRUE,
                 drops |-> <<[itemId |-> GOLD_ORE, quantity |-> 1,
                              chance |-> 1000]>>]
          [] b = DIAMOND_ORE -> [baseTime |-> 5000, toolRequired |-> TRUE,
                 drops |-> <<[itemId |-> 203, quantity |-> 1,
                              chance |-> 1000]>>]
          [] b = SNOW -> [baseTime |-> 200, toolRequired |-> FALSE,
                 drops |-> <<[itemId |-> SNOW_BLOCK, quantity |-> 1,
                              chance |-> 1000]>>]]

\* TOOL_SPEED_MULTIPLIERS in tenths
TOOL_SPEED_MULTIPLIERS ==
    [i \in ToolItems |->
        CASE i = 100 -> 20 [] i = 101 -> 40 [] i = 102 -> 60 [] i = 103 -> 80
          [] i = 110 -> 15 [] i = 111 -> 20 [] i = 112 -> 30 [] i = 113 -> 40]

\* Inventory.getSelectedItem: the item id, NoItem when the slot is empty or
\* holds an id getItem does not know
getSelectedItem(inv) ==
    LET slot == inv.hotbar[inv.selectedSlot + 1]
    IN IF slot.itemId # NoItem /\ knownItem(slot.itemId) THEN slot.itemId
       ELSE NoItem

\* Inventory.useSelectedItem: the inventory after the call
useSelectedItem(inv, amount) ==
    LET slot == inv.hotbar[inv.selectedSlot + 1]
    IN IF slot.itemId = NoItem \/ slot.quantity < amount THEN inv
       ELSE IF slot.quantity - amount <= 0
       THEN [inv EXCEPT !.hotbar[inv.selectedSlot + 1] = EmptySlot]
       ELSE [inv EXCEPT !.hotbar[inv.selectedSlot + 1].quantity =
                            slot.quantity - amount]

\* MiningSystem.getTargetBlock: the first voxel of the ray whose block is
\* not AIR, WATER or LAVA; every sample is a World.getBlock call
RECURSIVE getTargetBlock(_, _, _, _)
getTargetBlock(t, chs, cache, ray) ==
    IF ray = <<>> THEN [target |-> NoTarget, blockCache |-> cache]
    ELSE LET sample(v, r) ==
                 IF r.ret \notin {AIR, WATER, LAVA}
                 THEN [target |-> v, blockCache |-> r.blockCache]
                 ELSE getTargetBlock(t, chs, r.blockCache, Tail(ray))
         IN sample(Head(ray),
                   worldGetBlockAt(t, chs, cache, 2 * Head(ray)[1],
                                   2 * Head(ray)[2], 2 * Head(ray)[3]))

\* MiningSystem.calculateBreakTime
calculateBreakTime(inv, blockType) ==
    IF blockType \notin DOMAIN BLOCK_BREAK_DATA THEN 1000
    ELSE LET data == BLOCK_BREAK_DATA[blockType]
             selectedItem == getSelectedItem(inv)
         IN IF selectedItem # NoItem /\ selectedItem \in ToolItems
            THEN (data.baseTime * 10)
                     \div TOOL_SPEED_MULTIPLIERS[selectedItem]
            ELSE IF data.toolRequired THEN data.baseTime * 5
            ELSE data.baseTime

\* MiningSystem.getDrops; roll is Math.random() in thousandths, drawn once
\* per drop entry (every table entry has one drop)
getDrops(inv, blockType, roll) ==
    IF blockType \notin DOMAIN BLOCK_BREAK_DATA
    THEN <<[itemId |-> blockType, quantity |-> 1]>>
    ELSE LET data == BLOCK_BREAK_DATA[blockType]
         IN IF data.toolRequired /\ getSelectedItem(inv) \notin ToolItems
            THEN <<>>
            ELSE IF roll <= data.drops[1].chance
            THEN <<[itemId |-> data.drops[1].itemId,
                    quantity |-> data.drops[1].quantity]>>
            ELSE <<>>

\* the inventory after addItem of every drop in order
RECURSIVE addDrops(_, _)
addDrops(inv, drops) ==
    IF drops = <<>> THEN inv
    ELSE addDrops(addItem(inv, Head(drops).itemId,
                          Head(drops).quantity).inventory, Tail(drops))

\* MiningSystem.stopBreaking
stopBreaking(m) ==
    [m EXCEPT !.isBreaking = FALSE, !.targetBlock = NoTarget,
              !.breakProgress = 0]

\* MiningSystem.breakBlock: [mining, chunks, blockCache, scene, inventory,
\* edits]; edits lists the World.setBlock calls made with their results
breakBlock(t, chs, cache, sc, m, inv, roll) ==
    IF m.targetBlock = NoTarget
    THEN [mining |-> m, chunks |-> chs, blockCache |-> cache, scene |-> sc,
          inventory |-> inv, edits |-> <<>>]
    ELSE LET tb == m.targetBlock
             edit(read, w) ==
                 [mining |-> stopBreaking(m),
                  chunks |-> w.chunks,
                  blockCache |-> w.blockCache,
                  scene |-> w.scene,
                  inventory |-> addDrops(inv, getDrops(inv, read.ret, roll)),
                  edits |-> <<[at |-> tb, type |-> AIR, ret |-> w.ret]>>]
             remove(read) ==
                 edit(read, worldSetBlock(chs, read.blockCache, sc,
                                          2 * tb[1], 2 * tb[2], 2 * tb[3],
                                          AIR))
         IN remove(worldGetBlockAt(t, chs, cache,
                                   2 * tb[1], 2 * tb[2], 2 * tb[3]))

\* MiningSystem.startBreaking: [mining, blockCache]
startBreaking(t, chs, cache, m, inv, ray) ==
    LET begin(g, read) ==
            IF read.ret = AIR \/ read.ret = BEDROCK
            THEN [mining |-> m, blockCache |-> read.blockCache]
            ELSE [mining |->
                      [targetBlock |-> g.target,
                       breakProgress |-> 0,
                       isBreaking |-> TRUE,
                       maxBreakTime |-> calculateBreakTime(inv, read.ret)],
                  blockCache |-> read.blockCache]
        aim(g) ==
            IF g.target = NoTarget
            THEN [mining |-> m, blockCache |-> g.blockCache]
            ELSE begin(g, worldGetBlockAt(t, chs, g.blockCache,
                                          2 * g.target[1], 2 * g.target[2],
                                          2 * g.target[3]))
    IN aim(getTargetBlock(t, chs, cache, ray))

\* a faulty variant: the progress goes on whatever the camera points at
updateBreakingAnyTarget(t, chs, cache, sc, m, inv, ray, deltaTime, roll) ==
    LET idle(c) == [mining |-> m, chunks |-> chs, blockCache |-> c,
                    scene |-> sc, inventory |-> inv, edits |-> <<>>]
        aim(g) ==
            IF m.breakProgress + deltaTime >= m.maxBreakTime
            THEN breakBlock(t, chs, g.blockCache, sc,
                            [m EXCEPT !.breakProgress = @ + deltaTime],
                            inv, roll)
            ELSE [idle(g.blockCache) EXCEPT
                     !.mining = [m EXCEPT !.breakProgress = @ + deltaTime]]
    IN IF ~m.isBreaking \/ m.targetBlock = NoTarget THEN idle(cache)
       ELSE aim(getTargetBlock(t, chs, cache, ray))

\* MiningSystem.updateBreaking: [mining, chunks, blockCache, scene,
\* inventory, edits]
updateBreaking(t, chs, cache, sc, m, inv, ray, deltaTime, roll) ==
    LET idle(c) == [mining |-> m, chunks |-> chs, blockCache |-> c,
                    scene |-> sc, inventory |-> inv, edits |-> <<>>]
        aim(g) ==
            IF g.target = NoTarget \/ g.target # m.targetBlock
            THEN [idle(g.blockCache) EXCEPT !.mining = stopBreaking(m)]
            ELSE IF m.breakProgress + deltaTime >= m.maxBreakTime
            THEN breakBlock(t, chs, g.blockCache, sc,
                            [m EXCEPT !.breakProgress = @ + deltaTime],
                            inv, roll)
            ELSE [idle(g.blockCache) EXCEPT
                     !.mining = [m EXCEPT !.breakProgress = @ + deltaTime]]
    IN IF ~m.isBreaking \/ m.targetBlock = NoTarget THEN idle(cache)
       ELSE aim(getTargetBlock(t, chs, cache, ray))

\* MiningSystem.placeBlock: [ret, chunks, blockCache, scene, inventory,
\* edits]
placeBlock(t, chs, cache, sc, inv, ray, face) ==
    LET refuse(c) == [ret |-> FALSE, chunks |-> chs, blockCache |-> c,
                      scene |-> sc, inventory |-> inv, edits |-> <<>>]
        selectedItem == getSelectedItem(inv)
        put(at, w) ==
            [ret |-> TRUE, chunks |-> w.chunks, blockCache |-> w.blockCache,
             scene |-> w.scene, inventory |-> useSelectedItem(inv, 1),
             edits |-> <<[at |-> at, type |-> selectedItem, ret |-> w.ret]>>]
        check(at, read) ==
            IF read.ret # AIR THEN refuse(read.blockCache)
            ELSE put(at, worldSetBlock(chs, read.blockCache, sc,
                                       2 * at[1], 2 * at[2], 2 * at[3],
                                       selectedItem))
        place(g, at) ==
            check(at, worldGetBlockAt(t, chs, g.blockCache,
                                      2 * at[1], 2 * at[2], 2 * at[3]))
        aim(g) ==
            IF g.target = NoTarget THEN refuse(g.blockCache)
            ELSE IF selectedItem = NoItem \/ selectedItem \notin BlockItems
            THEN refuse(g.blockCache)
            ELSE place(g, <<g.target[1] + face[1], g.target[2] + face[2],
                            g.target[3] + face[3]>>)
    IN aim(getTargetBlock(t, chs, cache, ray))

-----------------------------------------------------------------------------
(* The mining specification.  It starts in one of three situations the     *)
(* game can be in: a World just constructed, with no chunk yet; the World  *)
(* loaded around a post on the plains; the World loaded around a second    *)
(* post where the player has built up to the top layer and holds two DIRT  *)
(* blocks.  Its steps are the public calls of MiningSystem with the camera *)
(* on one of the rays.  last.ops lists the World.setBlock calls of the     *)
(* step with their results; last.ret is "void", "true" or "false".         *)

MiningPost == <<1600, 1624>>

TowerPost == <<1310, 1310>>

TowerTop == <<655, 255, 655>>

\* the number of World.update calls made before play
LoadFrames == 6

\* looking down on column (800, 812), on column (799, 812) of the
\* neighbouring chunk, and on the top of the tower
MiningRays ==
    {<<<<800, 71, 812>>, <<800, 70, 812>>>>,
     <<<<799, 71, 812>>, <<799, 70, 812>>>>,
     <<TowerTop>>}

MiningFaces == {<<0, 1, 0>>, <<-1, 0, 0>>}

\* frame times: the cap of the game loop and a longer one
DeltaTimes == {100, 500}

\* Math.random() in thousandths
Rolls == {500}

\* the number of items held at which breaking is no longer followed
MaxHeld == 3

heldItems(inv) ==
    LET RECURSIVE sum(_)
        sum(slots) ==
            IF slots = <<>> THEN 0
            ELSE Head(slots).quantity + sum(Tail(slots))
    IN sum(allSlots(inv))

boolText(b) == IF b THEN "true" ELSE "false"

MiningTerrain ==
    [signals |-> [c \in ProbeColumns |-> PlainsSignals], noise |-> QuietNoise]

EmptyInventory ==
    [hotbar |-> [i \in 1..HotbarSize |-> EmptySlot],
     mainInventory |-> [i \in 1..MainSize |-> EmptySlot],
     selectedSlot |-> 0]

FreshWorld ==
    [chunks |-> EmptyMap, blockCache |-> <<>>, scene |-> {},
     chunksLoaded |-> 0, chunksRendered |-> 0]

\* the World after n calls of update at post
RECURSIVE loadWorld(_, _)
loadWorld(post, n) ==
    IF n = 0 THEN FreshWorld
    ELSE LET frame(w) ==
                 worldUpdate(MiningTerrain, w.chunks, w.blockCache, w.scene,
                             post[1], post[2], NoTreeDraw)
             keep(r) ==
                 [chunks |-> r.chunks, blockCache |-> r.blockCache,
                  scene |-> r.scene, chunksLoaded |-> r.chunksLoaded,
                  chunksRendered |-> r.chunksRendered]
             next(w) == IF w = w THEN keep(frame(w)) ELSE w
         IN next(loadWorld(post, n - 1))

\* the loaded World with a DIRT block set at the top of the tower
towerWorld(w) ==
    LET built(r) == [w EXCEPT !.chunks = r.chunks,
                              !.blockCache = r.blockCache,
                              !.scene = r.scene]
    IN built(worldSetBlock(w.chunks, w.blockCache, w.scene, 2 * TowerTop[1],
                           2 * TowerTop[2], 2 * TowerTop[3], DIRT))

MiningSituations ==
    {[world |-> FreshWorld, inventory |-> EmptyInventory],
     [world |-> loadWorld(MiningPost, LoadFrames),
      inventory |-> EmptyInventory],
     [world |-> towerWorld(loadWorld(TowerPost, LoadFrames)),
      inventory |-> setHotbarSlot(EmptyInventory, 0, DIRT, 2)]}

InitMining ==
    /\ terrain = MiningTerrain
    /\ \E s \in MiningSituations :
          /\ chunks = s.world.chunks
          /\ blockCache = s.world.blockCache
          /\ scene = s.world.scene
          /\ chunksLoaded = s.world.chunksLoaded
          /\ chunksRendered = s.world.chunksRendered
          /\ inventory = s.inventory
    /\ last = NoCall
    /\ streak = [chunk |-> <<>>, n |-> 0]
    /\ columnCache = EmptyMap
    /\ recency = NoRecency
    /\ mining = NoMining

StartBreaking(ray) ==
    \E r \in {startBreaking(terrain, chunks, blockCache, mining, inventory,
                            ray)} :
       /\ mining' = r.mining
       /\ blockCache' = r.blockCache
       /\ last' = [NoCall EXCEPT !.op = "startBreaking", !.args = <<ray>>]
       /\ UNCHANGED <<terrain, chunks, scene, chunksLoaded, chunksRendered,
                      streak, columnCache, recency, inventory>>

UpdateBreaking(ray, deltaTime, roll) ==
    /\ heldItems(inventory) < MaxHeld
    /\ \E r \in {updateBreaking(terrain, chunks, blockCache, scene, mining,
                                inventory, ray, deltaTime, roll)} :
          /\ mining' = r.mining
          /\ chunks' = r.chunks
          /\ blockCache' = r.blockCache
          /\ scene' = r.scene
          /\ inventory' = r.inventory
          /\ last' = [NoCall EXCEPT !.op = "updateBreaking",
                                    !.args = <<ray, deltaTime>>,
                                    !.ops = r.edits]
    /\ UNCHANGED <<terrain, chunksLoaded, chunksRendered, streak,
                   columnCache, recency>>

StopBreaking ==
    /\ mining' = stopBreaking(mining)
    /\ last' = [NoCall EXCEPT !.op = "stopBreaking"]
    /\ UNCHANGED <<terrain, chunks, blockCache, scene, chunksLoaded,
                   chunksRendered, streak, columnCache, recency, inventory>>

placePosition(ray, face) ==
    LET at(target) ==
            IF target = NoTarget THEN NoTarget
            ELSE <<target[1] + face[1], target[2] + face[2],
                   target[3] + face[3]>>
    IN at(getTargetBlock(terrain, chunks, blockCache, ray).target)

\* the positions followed are the probed voxels
PlaceBlock(ray, face) ==
    /\ \/ placePosition(ray, face) \in Probes \cup {NoTarget}
       \/ placePosition(ray, face) = <<TowerTop[1], CHUNK_HEIGHT, TowerTop[3]>>
    /\ \E r \in {placeBlock(terrain, chunks, blockCache, scene, inventory,
                            ray, face)} :
       /\ chunks' = r.chunks
       /\ blockCache' = r.blockCache
       /\ scene' = r.scene
       /\ inventory' = r.inventory
       /\ last' = [NoCall EXCEPT !.op = "placeBlock",
                                 !.args = <<ray, face>>,
                                 !.ret = boolText(r.ret),
                                 !.ops = r.edits]
       /\ UNCHANGED <<terrain, chunksLoaded, chunksRendered, streak,
                      columnCache, recency, mining>>

NextMining ==
    \/ \E ray \in MiningRays : StartBreaking(ray)
    \/ \E ray \in MiningRays, deltaTime \in DeltaTimes, roll \in Rolls :
          UpdateBreaking(ray, deltaTime, roll)
    \/ StopBreaking
    \/ \E ray \in MiningRays, face \in MiningFaces : PlaceBlock(ray, face)

SpecMining == InitMining /\ [][NextMining]_vars

\* C26: MiningSystem changes the inventory only when the world edit
\* succeeded: a placeBlock call that consumes an item or returns true, and an
\* updateBreaking call that adds drops, made a World.setBlock call that
\* returned true; when setBlock returned false the inventory is unchanged.
InventoryFollowsEdit ==
    [][last'.op \in {"placeBlock", "updateBreaking"} =>
         /\ (inventory' # inventory \/ last'.ret = "true") =>
               /\ last'.ops # <<>>
               /\ \A i \in 1..Len(last'.ops) : last'.ops[i].ret
         /\ (\E i \in 1..Len(last'.ops) : ~last'.ops[i].ret) =>
               inventory' = inventory]_vars

\* the state stopBreaking leaves: not breaking, no target, no progress
miningIdle(m) ==
    /\ ~m.isBreaking
    /\ m.targetBlock = NoTarget
    /\ m.breakProgress = 0

\* the block World.getBlock reports at voxel v in the current state
blockSeen(v) ==
    worldGetBlockAt(terrain, chunks, blockCache,
                    2 * v[1], 2 * v[2], 2 * v[3]).ret

\* the voxel the camera ray targets in the current state
targetSeen(ray) == getTargetBlock(terrain, chunks, blockCache, ray).target

\* C29: over any sequence of startBreaking, updateBreaking and stopBreaking
\* calls a block is removed only at the coordinate fixed by the last
\* startBreaking and only when the frame times of the updateBreaking calls
\* made on that same target since then add up to the break time computed at
\* startBreaking; a stopBreaking call, an updateBreaking call that finds no
\* target or another target, and the removal itself leave the system not
\* breaking, without target and with progress 0.
BreakingSequence ==
    [][/\ last'.op = "stopBreaking" =>
             miningIdle(mining') /\ chunks' = chunks
       /\ last'.op = "startBreaking" =>
             /\ chunks' = chunks
             /\ \A ray \in {last'.args[1]} :
                   IF targetSeen(ray) = NoTarget
                         \/ blockSeen(targetSeen(ray)) \in {AIR, BEDROCK}
                   THEN mining' = mining
                   ELSE /\ mining'.isBreaking
                        /\ mining'.targetBlock = targetSeen(ray)
                        /\ mining'.breakProgress = 0
                        /\ mining'.maxBreakTime =
                              calculateBreakTime(inventory,
                                  blockSeen(targetSeen(ray)))
       /\ last'.op = "updateBreaking" =>
             \A ray \in {last'.args[1]}, deltaTime \in {last'.args[2]} :
                IF ~mining.isBreaking \/ mining.targetBlock = NoTarget
                THEN mining' = mining /\ last'.ops = <<>> /\ chunks' = chunks
                ELSE IF targetSeen(ray) # mining.targetBlock
                THEN /\ miningIdle(mining')
                     /\ last'.ops = <<>>
                     /\ chunks' = chunks
                ELSE IF mining.breakProgress + deltaTime < mining.maxBreakTime
                THEN /\ mining' = [mining EXCEPT
                                      !.breakProgress = @ + deltaTime]
                     /\ last'.ops = <<>>
                     /\ chunks' = chunks
                ELSE /\ miningIdle(mining')
                     /\ Len(last'.ops) = 1
                     /\ last'.ops[1].at = mining.targetBlock
                     /\ last'.ops[1].type = AIR
                     /\ last'.ops[1].ret =>
                           \A tb \in {mining.targetBlock} :
                              blockSeen(tb)' = AIR
       /\ last'.op = "placeBlock" => mining' = mining]_vars

\* a block was removed by an updateBreaking call whose frame time alone is
\* below every break time: the progress of earlier calls was counted
BreakingSequenceAccumulated ==
    /\ last.op = "updateBreaking"
    /\ last.args[2] = 500
    /\ Len(last.ops) = 1
    /\ last.ops[1].ret
    /\ last.ops[1].at \in {<<800, 70, 812>>, <<799, 70, 812>>}
    /\ miningIdle(mining)
    /\ blockSeen(last.ops[1].at) = AIR

====
